---- MODULE Spec2Model ----
(***************************************************************************)
(* Model of the STM32 programming orchestrator:                            *)
(*   program_device (stm32_programmer/programmers/core.py), the top-level   *)
(*   run, with the UART helper calls it makes,                              *)
(*   BaseProgrammer.write_bytes / _verify_write (programmers/base.py), the  *)
(*   backend chain and the read-back verification, run step by step,        *)
(*   detect_serial_port (programmers/core.py), the probe/UART pairing.      *)
(*                                                                         *)
(* The serial handle is the pyserial object held in programmer.selected_uart*)
(* : "none" (selected_uart is None), "open" (is_open is True) or "closed"  *)
(* (the object exists and reports is_open False).  The board, the probe,    *)
(* the flash backends and the operating system are the environment: every   *)
(* outcome the code distinguishes is a nondeterministic choice.             *)
(***************************************************************************)
EXTENDS Integers, Sequences, FiniteSets, TLC

(***************************************************************************)
(* Bounds of the model.                                                    *)
(***************************************************************************)
MaxDevices == 1          \* ST-Link probes one enumeration may return
MaxDataLen == 2          \* bytes of a firmware image
MaxReadSlack == 1        \* bytes a read-back may hold beyond the image
MaxPorts == 2            \* serial ports one enumeration may return

(***************************************************************************)
(* Program constants.                                                      *)
(***************************************************************************)
ModeSwitchRetries == 5       \* core.py:1340  max_retries
ModeSwitchAlternatives == 5  \* core.py:1585-1732  ALTERNATIVA 1..5
ModeCheckRetries == 3        \* core.py:1769  mode_check_retries
ReenumRetries == 5           \* core.py:1824  max_retries
ReconnectRetries == 5        \* core.py:1991  max_reconnect_retries
SafeWriteMaxRetries == 2     \* base.py:1498  max_retries=2

Modes == {"LV", "HV"}
Bytes == {0, 1, 255}
ErasedByte == 255
UartStates == {"none", "open", "closed"}

(***************************************************************************)
(* Sequences of bytes up to a length.                                      *)
(***************************************************************************)
SeqsUpTo(S, n) == UNION {[1..k -> S] : k \in 0..n}

Take(s, n) == SubSeq(s, 1, IF n < Len(s) THEN n ELSE Len(s))

(***************************************************************************)
(* BaseProgrammer._safe_uart_write(data, max_retries, uart_port) as the     *)
(* set of its outcomes from handle state u at attempt a, w telling whether  *)
(* the bytes already reached the wire (a write that succeeded before its    *)
(* flush raised).                                                          *)
(*   res "ok": write and flush succeeded; res "raise": RuntimeError.       *)
(* A reopen is close_uart (handle becomes None) followed by                 *)
(* connect_to_uart_port, which either yields an open handle or raises and   *)
(* leaves the handle None.                                                 *)
(***************************************************************************)
RECURSIVE SafeUartWrite(_, _, _)
SafeUartWrite(u, a, w) ==
    LET Raise(v, x) == {[res |-> "raise", wire |-> x, u |-> v]}
        Reopen(x) == SafeUartWrite("open", a + 1, x) \cup SafeUartWrite("none", a + 1, x)
    IN  CASE u = "none" ->
               IF a < SafeWriteMaxRetries THEN Reopen(w) ELSE Raise("none", w)
          [] u = "closed" ->
               IF a < SafeWriteMaxRetries THEN Reopen(w) ELSE Raise("closed", w)
          [] u = "open" ->
               \* write + flush succeed
               {[res |-> "ok", wire |-> TRUE, u |-> "open"]}
               \* write or flush raises an error naming a closed port
               \cup (IF a < SafeWriteMaxRetries
                     THEN Reopen(w) \cup Reopen(TRUE)
                     ELSE Raise("open", w) \cup Raise("open", TRUE))
               \* write or flush raises another error: retried on the same handle
               \cup (IF a < SafeWriteMaxRetries
                     THEN SafeUartWrite("open", a + 1, w) \cup SafeUartWrite("open", a + 1, TRUE)
                     ELSE Raise("open", w) \cup Raise("open", TRUE))

(***************************************************************************)
(* BaseProgrammer.send_command_uart(command, expected_response) as the set  *)
(* of its outcomes from handle state u.                                    *)
(*   res: "true" / "false" (return value) or "raise" (RuntimeError),       *)
(*   wire: the command bytes reached the board,                            *)
(*   u: the handle state it leaves.                                        *)
(***************************************************************************)
SendCommandUart(u) ==
    LET Out(r, x, v) == [res |-> r, wire |-> x, u |-> v]
        \* response loop and comparison, after a successful write
        AfterWrite ==
            { Out("true", TRUE, "open"),      \* response equals expected
              Out("false", TRUE, "open"),     \* mismatch, empty, or read error
              Out("false", TRUE, "closed"),   \* is_open False while reading: break
              Out("raise", TRUE, "open") }    \* access error in the win32 diagnostics
    IN  CASE u = "none" -> {Out("raise", FALSE, "none")}
          [] u = "closed" ->
               { Out("raise", FALSE, "closed"),   \* "UART порт не открыт"
                 Out("raise", FALSE, "none") }    \* is_open itself raised: handle dropped
          [] u = "open" ->
               { Out("raise", FALSE, "open"),     \* access error before the write
                 Out("false", FALSE, "open"),     \* input buffer could not be cleared
                 Out("false", FALSE, "closed"),   \* closed at the buffer step
                 Out("raise", FALSE, "closed") }  \* closed right before the write
               \cup UNION { IF sw.res = "ok" THEN AfterWrite
                            ELSE {Out("raise", sw.wire, sw.u)}
                            : sw \in SafeUartWrite("open", 0, FALSE)
                                     \cup SafeUartWrite("closed", 0, FALSE) }

(***************************************************************************)
(* check_current_mode(programmer, expected_mode, max_retries, retry_delay)  *)
(* as the set of its outcomes: the direct GET queries swallow every         *)
(* exception; the repeated SETSWICH goes through send_command_uart, whose   *)
(* RuntimeError is not caught here.  "by" says what made it return True:   *)
(* the answer to a query or the acknowledgement of the repeated SET.       *)
(***************************************************************************)
CheckCurrentMode(u, maxRetries) ==
    LET Out(r, v, b) == [res |-> r, u |-> v, by |-> b]
    IN  IF u # "open"
        THEN {Out("false", u, "none")}
        ELSE { Out("true", "open", "query"), Out("false", "open", "none"),
               Out("false", "closed", "none") }
             \cup (IF maxRetries > 1
                   THEN { Out(o.res, o.u, "set") :
                            o \in SendCommandUart("open") \cup SendCommandUart("closed") }
                   ELSE {})

(***************************************************************************)
(* A direct selected_uart.write(command); flush() on handle state u.       *)
(***************************************************************************)
DirectWrite(u) ==
    IF u = "open"
    THEN { [ok |-> TRUE, wire |-> TRUE], [ok |-> FALSE, wire |-> FALSE],
           [ok |-> FALSE, wire |-> TRUE] }
    ELSE { [ok |-> FALSE, wire |-> FALSE] }

(***************************************************************************)
(* Read-back comparison of BaseProgrammer._verify_write (base.py 1081-1141) *)
(***************************************************************************)
RECURSIVE StripTrailingFF(_)
StripTrailingFF(s) ==
    IF Len(s) > 0 /\ s[Len(s)] = ErasedByte
    THEN StripTrailingFF(SubSeq(s, 1, Len(s) - 1))
    ELSE s

Min(a, b) == IF a < b THEN a ELSE b

NoDetail ==
    [kind |-> "none", pos |-> -1, exp |-> -1, act |-> -1, lenExp |-> -1, lenGot |-> -1,
     attempted |-> <<>>, lastError |-> "none"]

\* the 1-based indexes at which expected and trimmed differ, within both
MismatchIndexes(expected, trimmed) ==
    {i \in 1..Min(Len(expected), Len(trimmed)) : expected[i] # trimmed[i]}

FirstMismatchTakesLast(expected, trimmed) ==
    LET D == MismatchIndexes(expected, trimmed)
    IN  IF D = {} THEN 0 ELSE CHOOSE i \in D : \A j \in D : i >= j

\* the first element of the for loop that breaks at the first difference
FirstMismatch(expected, trimmed) ==
    LET D == MismatchIndexes(expected, trimmed)
    IN  IF D = {} THEN 0 ELSE CHOOSE i \in D : \A j \in D : i <= j

CompareReadbackAcceptsAll(expected, read_data) ==
    [ok |-> TRUE, detail |-> NoDetail]

CompareReadback(expected, read_data) ==
    LET stripped == StripTrailingFF(read_data)
        trimmed == Take(stripped, Len(expected))
        k == FirstMismatch(expected, trimmed)
    IN  IF trimmed = expected
        THEN [ok |-> TRUE, detail |-> NoDetail]
        ELSE [ok |-> FALSE,
              detail |-> [NoDetail EXCEPT
                  !.kind = "verify_mismatch",
                  !.pos = IF k = 0 THEN -1 ELSE k - 1,
                  !.exp = IF k = 0 THEN -1 ELSE expected[k],
                  !.act = IF k = 0 THEN -1 ELSE trimmed[k],
                  !.lenExp = IF Len(trimmed) # Len(expected) THEN Len(expected) ELSE -1,
                  !.lenGot = IF Len(trimmed) # Len(expected) THEN Len(trimmed) ELSE -1]]

(***************************************************************************)
(* detect_serial_port (core.py 131-249).  Strings are sequences of          *)
(* one-character strings, so that "in", upper() and lower() are computed.   *)
(***************************************************************************)
NoneInt == -1      \* None where the code holds an int or None

Digits == <<"0", "1", "2", "3", "4", "5", "6", "7", "8", "9">>

\* str(n) for n >= 0
RECURSIVE DecStr(_)
DecStr(n) == IF n < 10 THEN <<Digits[n + 1]>>
             ELSE Append(DecStr(n \div 10), Digits[(n % 10) + 1])

\* f"{n:03d}"
Pad3(n) == IF n < 10 THEN <<"0", "0">> \o DecStr(n)
           ELSE IF n < 100 THEN <<"0">> \o DecStr(n)
           ELSE DecStr(n)

LowerLetters == <<"a", "b", "c", "d", "i", "k", "l", "n", "r", "s", "t", "u">>
UpperLetters == <<"A", "B", "C", "D", "I", "K", "L", "N", "R", "S", "T", "U">>

Alphabet ==
    {LowerLetters[i] : i \in DOMAIN LowerLetters} \cup {UpperLetters[i] : i \in DOMAIN UpperLetters}
    \cup {Digits[i] : i \in DOMAIN Digits} \cup {":", ".", "=", " ", "-", "V", "P"}

\* str.upper() and str.lower(), character by character
UpperChar ==
    [c \in Alphabet |->
        IF \E i \in DOMAIN LowerLetters : LowerLetters[i] = c
        THEN UpperLetters[CHOOSE i \in DOMAIN LowerLetters : LowerLetters[i] = c]
        ELSE c]

LowerChar ==
    [c \in Alphabet |->
        IF \E i \in DOMAIN UpperLetters : UpperLetters[i] = c
        THEN LowerLetters[CHOOSE i \in DOMAIN UpperLetters : UpperLetters[i] = c]
        ELSE c]

Upper(s) == [i \in DOMAIN s |-> UpperChar[s[i]]]
Lower(s) == [i \in DOMAIN s |-> LowerChar[s[i]]]

\* Python's  p in s
Contains(s, p) ==
    \E i \in 0..(Len(s) - Len(p)) : SubSeq(s, i + 1, i + Len(p)) = p

\* f"VID:PID={TARGET_UART_VID:04X}:{TARGET_UART_PID:04X}"
Signature ==
    <<"V", "I", "D", ":", "P", "I", "D", "=", "1", "A", "8", "6", ":", "7", "5", "2", "3">>

\* core.py 146-151
IsTargetUart(port) ==
    IF port.vidpid # "none"
    THEN port.vidpid = "target"
    ELSE Contains(Upper(port.hwid), Signature)

\* core.py 178-184
BusPatterns(bus) ==
    { <<":">> \o Pad3(bus) \o <<".">>,
      <<":">> \o Pad3(bus) \o <<":">>,
      <<"B", "U", "S">> \o Pad3(bus),
      <<"B", "U", "S">> \o DecStr(bus),
      <<"B", "U", "S", " ">> \o DecStr(bus) }

\* core.py 193-197
AddressPatterns(address) ==
    { <<":">> \o Pad3(address) \o <<".">>,
      <<":">> \o Pad3(address) \o <<":">>,
      <<"A", "D", "D", "R">> \o Pad3(address) }

\* the four tests of the loop body, each on its own (core.py 166-228)
SignalMatches(sig, d, port) ==
    CASE sig = "serial" ->
           /\ d.serial # <<>> /\ port.serial # <<>>
           /\ \/ Contains(Lower(port.serial), Lower(d.serial))
              \/ Contains(Lower(d.serial), Lower(port.serial))
      [] sig = "bus" ->
           /\ d.bus # NoneInt
           /\ \E pat \in BusPatterns(d.bus) : Contains(Upper(port.hwid), pat)
      [] sig = "address" ->
           /\ d.address # NoneInt
           /\ \E pat \in AddressPatterns(d.address) : Contains(Upper(port.hwid), pat)
      [] sig = "description" ->
           /\ port.desc # <<>>
           /\ \/ Contains(Upper(port.desc), <<"S", "T", "-", "L", "I", "N", "K">>)
              \/ Contains(Upper(port.desc), <<"S", "T", "L", "I", "N", "K">>)
      [] OTHER -> FALSE

\* the test of the loop body that stops the loop at this port, in the order
\* the code tries them, or "none"
PortSignal(d, port) ==
    IF SignalMatches("serial", d, port) THEN "serial"
    ELSE IF SignalMatches("bus", d, port) THEN "bus"
    ELSE IF SignalMatches("address", d, port) THEN "address"
    ELSE IF SignalMatches("description", d, port) THEN "description"
    ELSE "none"

MatchingPortsUnfiltered(d) == DOMAIN d.ports

\* indexes of matching_ports within ports (core.py 153)
MatchingPorts(d) == {i \in DOMAIN d.ports : IsTargetUart(d.ports[i])}

\* the for loop of core.py 165-228: the first matching port one of the tests
\* accepts, with the test that accepted it; port 0 when the loop ends
\* without a break or is not entered
FoundPort(d) ==
    LET hasProbeData == d.bus # NoneInt \/ d.address # NoneInt \/ d.serial # <<>>
        Hits == IF hasProbeData
                THEN {i \in MatchingPorts(d) : PortSignal(d, d.ports[i]) # "none"}
                ELSE {}
    IN  IF Hits = {} THEN [port |-> 0, by |-> "none"]
        ELSE LET first == CHOOSE i \in Hits : \A j \in Hits : i <= j
             IN  [port |-> first, by |-> PortSignal(d, d.ports[first])]

VARIABLES
    \* ---- program_device ----
    pc,         \* position in program_device ("off": no run in this behaviour)
    cfg,        \* firmware_configs: the requested modes, in order
    portGiven,  \* the caller passed uart_port
    uartPort,   \* uart_port is truthy
    devIndex,   \* device_index (None is 1)
    nDev,       \* len(programmer.devices)
    uart,       \* programmer.selected_uart: "none" | "open" | "closed"
    modeIdx,    \* 1-based index of the loop over firmware_configs
    attempt,    \* counter of the retry loop the run is in
    stopReq,    \* what stop_check_callback() returns
    results,    \* results[mode]: "unset" | "ok" | "fail"
    ret,        \* the returned tuple, by kind ("none" while running)
    retDetail,  \* error detail carried by the returned message
    h,          \* history of the run (what was sent, flashed, tested)
    \* ---- BaseProgrammer.write_bytes ----
    wb,         \* the state of one write_bytes call
    \* ---- detect_serial_port ----
    ds,         \* inputs and result of one detect_serial_port call
    \* ---- BaseProgrammer.send_command_uart ----
    sc,         \* the state of one send_command_uart call
    \* ---- BaseProgrammer.close_uart ----
    cu,         \* the state of close_uart calls on one handle
    \* ---- run_test_plan ----
    tp,         \* the state of one run_test_plan call
    \* ---- validate_status ----
    vs,         \* arguments and result of one validate_status call
    \* ---- server/app.py ----
    sv,         \* programming_state, the start requests and their worker threads
    \* ---- gui/main_window.py, gui/serial_monitor.py ----
    gui,        \* the main window, its ProgrammingThread and the serial monitor
    \* ---- progress_percent_callback ----
    pg          \* the values passed to progress_percent_callback in one run

runVars == <<pc, cfg, portGiven, uartPort, devIndex, nDev, uart, modeIdx, attempt,
             stopReq, results, ret, retDetail, h>>
vars == <<pc, cfg, portGiven, uartPort, devIndex, nDev, uart, modeIdx, attempt,
          stopReq, results, ret, retDetail, h, wb, ds, sc, cu, tp, vs, sv, gui, pg>>

(***************************************************************************)
(* BaseProgrammer.write_bytes, one step per backend.                       *)
(***************************************************************************)
WbIdle ==
    [pc |-> "idle", caller |-> "none", selected |-> FALSE, data |-> <<>>,
     success |-> FALSE, by |-> "none", attempted |-> <<>>, lastError |-> "none",
     held |-> "none",
     gotRead |-> FALSE, read |-> <<>>, out |-> [status |-> "none", detail |-> NoDetail]]

WbCall(who, sel, data) ==
    [WbIdle EXCEPT !.pc = "start", !.caller = who, !.selected = sel, !.data = data]

WbReturn(w, status, detail) ==
    [w EXCEPT !.pc = "done", !.out = [status |-> status, detail |-> detail]]

\* base.py 727-728
WbStart ==
    /\ wb.pc = "start"
    /\ wb' = IF ~wb.selected
             THEN WbReturn(wb, "fail", [NoDetail EXCEPT !.kind = "not_selected"])
             ELSE [wb EXCEPT !.pc = "lib"]
    /\ UNCHANGED <<runVars, ds, sc, cu, tp, vs, sv, gui, pg>>

\* Who holds the probe when a backend's step is over.  The library backend
\* connects in its constructor (base.py 744) and is disconnected by the
\* statement after the write (base.py 751-752), which an exception from the
\* write skips; the command line tools hold the probe only while their
\* process runs; the raw USB backend is disconnected in a finally block
\* (base.py 955-957).
HoldAfter(here, o) == IF here = "lib" /\ o = "raise" THEN "lib" ELSE "none"

\* One backend of the chain: name, the label it appends to attempted_methods
\* when it is tried, whether it can be unavailable, and the step that follows
\* a failure.
WbBackend(here, next, canBeMissing) ==
    /\ wb.pc = here
    /\ \E o \in {"ok", "fail", "raise"} \cup (IF canBeMissing THEN {"missing"} ELSE {}) :
         wb' = CASE o = "ok" ->
                      [wb EXCEPT !.pc = "verify", !.success = TRUE, !.by = here,
                                 !.attempted = Append(@, here)]
                 [] o = "fail" ->
                      [wb EXCEPT !.pc = next, !.lastError = here,
                                 !.attempted = Append(@, here)]
                 [] o = "missing" ->
                      [wb EXCEPT !.pc = next,
                                 !.lastError = IF here = "lib" THEN @ ELSE here,
                                 !.attempted = Append(@, "missing_" \o here)]
                 [] o = "raise" ->
                      WbReturn([wb EXCEPT !.attempted = Append(@, here),
                                          !.held = HoldAfter(here, o)],
                               "raise", NoDetail)
    /\ UNCHANGED <<runVars, ds, sc, cu, tp, vs, sv, gui, pg>>

WbLib == WbBackend("lib", "cube", TRUE)          \* base.py 737-757
WbCube == WbBackend("cube", "openocd", TRUE)     \* base.py 759-778
WbOpenocd == WbBackend("openocd", "usb", TRUE)   \* base.py 780-797
WbUsb == WbBackend("usb", "report", FALSE)       \* base.py 799-957

\* base.py 974-986
WbReport ==
    /\ wb.pc = "report"
    /\ wb' = WbReturn(wb, "fail",
                [NoDetail EXCEPT !.kind = "backends", !.attempted = wb.attempted,
                                 !.lastError = wb.lastError])
    /\ UNCHANGED <<runVars, ds, sc, cu, tp, vs, sv, gui, pg>>

ReadValues(data) == SeqsUpTo(Bytes, Len(data) + MaxReadSlack)

\* _verify_write's read chain, base.py 994-1079: the first backend whose
\* read_bytes yields data wins; an absent tool, an empty read or an exception
\* leaves read_data empty.
WbReadBack ==
    /\ wb.pc = "verify"
    /\ \E r \in ReadValues(wb.data) :
         wb' = IF r = <<>>
               THEN WbReturn(wb, "fail", [NoDetail EXCEPT !.kind = "verify_noread"])
               ELSE [wb EXCEPT !.pc = "compare", !.gotRead = TRUE, !.read = r]
    /\ UNCHANGED <<runVars, ds, sc, cu, tp, vs, sv, gui, pg>>

\* base.py 1081-1141 and 965-972
WbCompare ==
    /\ wb.pc = "compare"
    /\ LET c == CompareReadback(wb.data, wb.read)
       IN  wb' = WbReturn(wb, IF c.ok THEN "ok" ELSE "fail", c.detail)
    /\ UNCHANGED <<runVars, ds, sc, cu, tp, vs, sv, gui, pg>>

WriteBytesStep == WbStart \/ WbLib \/ WbCube \/ WbOpenocd \/ WbUsb \/ WbReport
                  \/ WbReadBack \/ WbCompare

(***************************************************************************)
(* program_device (core.py 1146-2171).                                     *)
(***************************************************************************)
HInit ==
    [lastPwr |-> "none",      \* last EN_12V command that reached the board
     onWire |-> FALSE,        \* SET EN_12V=ON reached the board in this run
     offCycle |-> 0,          \* SET EN_12V=OFF attempts of the power-cycle steps
     offFinal |-> 0,          \* send_command_uart(SET EN_12V=OFF) calls of the finally block
     offFallback |-> 0,       \* direct writes of SET EN_12V=OFF in the finally block
     openAtExit |-> FALSE,    \* the handle was open when the finally block looked at it
     everOpened |-> FALSE,    \* connect_to_uart_port returned a handle in this run
     finallyRan |-> FALSE,
     switched |-> {},         \* modes whose SET SWICH_SWD1__2 command reached the board
     flashed |-> {},          \* modes for which write_bytes was called
     verified |-> {},         \* modes whose write_bytes returned (True, None)
     msFailed |-> {},         \* modes recorded failed by a mode-switch sub-step
     confirmedBy |-> "none",  \* what confirmed the mode of the image about to be written
     testState |-> "not_run", \* run_test_plan: not_run | refused | passed | failed | raised | skipped
     stopInWrite |-> "none",  \* mode whose write_bytes was running when stop was requested
     failedWrite |-> "none"]  \* mode whose write_bytes returned failure

Pwr(hh, cmd, wire) ==
    [hh EXCEPT !.lastPwr = IF wire THEN cmd ELSE @,
               !.onWire = @ \/ (wire /\ cmd = "ON")]

Mode == cfg[modeIdx]

Range(f) == {f[i] : i \in DOMAIN f}

\* load_firmware_image never returns an empty image (core.py 333-334)
FirmwareImages == SeqsUpTo(Bytes, MaxDataLen) \ {<<>>}

\* the images the files of firmware_configs hold in a run
RunImages == {<<1>>, <<0, 255>>}

Goto(p) == pc' = p /\ ret' = ret /\ retDetail' = retDetail
Return(kind) == pc' = "finally" /\ ret' = kind /\ retDetail' = NoDetail
ReturnWith(kind, d) == pc' = "finally" /\ ret' = kind /\ retDetail' = d
NextImage == pc' = "loop_head" /\ modeIdx' = modeIdx + 1 /\ attempt' = 0
             /\ ret' = ret /\ retDetail' = retDetail
inputsUnch == UNCHANGED <<cfg, portGiven, devIndex, wb, ds, sc, cu, tp, vs, sv, gui, pg>>

\* find_devices(): -1 stands for an exception (USB backend or USB error)
FindDevices == {-1} \cup (0..MaxDevices)

\* core.py 1166-1176: before the try block
Start ==
    /\ pc = "start"
    /\ \E n \in FindDevices :
         /\ nDev' = IF n < 0 THEN 0 ELSE n
         /\ IF n < 0 THEN pc' = "done" /\ ret' = "raised" /\ retDetail' = retDetail
            ELSE IF n = 0 THEN pc' = "done" /\ ret' = "no_devices" /\ retDetail' = retDetail
            ELSE Goto("select")
    /\ UNCHANGED <<uartPort, uart, modeIdx, attempt, stopReq, results, h>>
    /\ inputsUnch

\* core.py 1179-1203
Select ==
    /\ pc = "select"
    /\ IF devIndex < 1 \/ devIndex > nDev
       THEN Return("bad_index") /\ uartPort' = uartPort
       ELSE /\ Goto("open_uart")
            /\ \E detected \in BOOLEAN : uartPort' = IF portGiven THEN TRUE ELSE detected
    /\ UNCHANGED <<nDev, uart, modeIdx, attempt, stopReq, results, h>>
    /\ inputsUnch

\* core.py 1212-1230
OpenUart ==
    /\ pc = "open_uart"
    /\ IF uartPort
       THEN \E ok \in BOOLEAN :
              IF ok THEN /\ Goto("power_on") /\ uart' = "open"
                         /\ h' = [h EXCEPT !.everOpened = TRUE]
              ELSE Return("exception") /\ uart' = uart /\ h' = h
       ELSE Goto("power_on") /\ uart' = uart /\ h' = h
    /\ UNCHANGED <<uartPort, nDev, modeIdx, attempt, stopReq, results>>
    /\ inputsUnch

\* core.py 1242-1249: the power-on command was not acknowledged
PowerOnFailed == Return("power_on_failed")

\* core.py 1232-1271
PowerOn ==
    /\ pc = "power_on"
    /\ \E o \in SendCommandUart(uart) :
         /\ uart' = o.u
         /\ h' = Pwr(h, "ON", o.wire)
         /\ IF o.res = "raise" THEN Return("exception")
            ELSE IF o.res = "false" THEN PowerOnFailed
            ELSE IF stopReq THEN Return("stopped")
            ELSE IF cfg = <<>> THEN Return("no_firmware")
            ELSE Goto("loop_head")
    /\ modeIdx' = 1 /\ attempt' = 0
    /\ UNCHANGED <<uartPort, nDev, stopReq, results>>
    /\ inputsUnch

\* core.py 1276-1388: loop entry, stop check, reconnect when the handle is
\* None, the diagnostics (in_waiting raises on a closed handle, outside any
\* try) and the two informational check_current_mode calls (max_retries=1,
\* exceptions swallowed).
LoopHead ==
    /\ pc = "loop_head"
    /\ LET h0 == [h EXCEPT !.confirmedBy = "none"]
       IN
       IF modeIdx > Len(cfg) THEN Goto("summary") /\ uart' = uart /\ h' = h0
       ELSE IF stopReq THEN Return("stopped") /\ uart' = uart /\ h' = h0
       ELSE IF ~uartPort THEN Goto("load_fw") /\ uart' = uart /\ h' = h0
       ELSE \E conn \in (IF uart = "none" THEN {"ok", "raise"} ELSE {"keep"}) :
              IF conn = "raise" THEN Return("exception") /\ uart' = uart /\ h' = h0
              ELSE LET u1 == IF conn = "ok" THEN "open" ELSE uart
                   IN  /\ uart' = u1
                       /\ h' = [h0 EXCEPT !.everOpened = @ \/ conn = "ok"]
                       /\ \E diag \in (IF u1 = "closed" THEN {"raise", "pass"} ELSE {"pass"}) :
                            IF diag = "raise" THEN Return("exception") ELSE Goto("ms_send")
    /\ attempt' = 0
    /\ UNCHANGED <<uartPort, nDev, modeIdx, stopReq, results>>
    /\ inputsUnch

\* core.py 1748-1754, 1791-1799, 1859-1864: a failed mode switch records the
\* image as failed and continues with the next image
ModeSwitchFailedAborts ==
    /\ results' = [results EXCEPT ![Mode] = "fail"]
    /\ pc' = "finally" /\ ret' = "mode_failed" /\ retDetail' = retDetail
    /\ modeIdx' = modeIdx /\ attempt' = 0

ModeSwitchFailed ==
    /\ results' = [results EXCEPT ![Mode] = "fail"]
    /\ NextImage

\* core.py 1390-1576: one attempt of the SET SWICH_SWD1__2=<mode> loop, the
\* command written directly, the answer read in the first or the delayed window
MsSend ==
    /\ pc = "ms_send"
    /\ \E w \in DirectWrite(uart), r \in {"ack", "nack", "closed"} :
         /\ h' = [h EXCEPT !.switched = IF w.wire THEN @ \cup {Mode} ELSE @]
         /\ uart' = IF w.ok /\ r = "closed" THEN "closed" ELSE uart
         /\ IF w.ok /\ r = "ack"
            THEN Goto("ms_confirm") /\ attempt' = 0
            ELSE IF attempt + 1 < ModeSwitchRetries
            THEN Goto("ms_send") /\ attempt' = attempt + 1
            ELSE Goto("ms_alt") /\ attempt' = 0
    /\ UNCHANGED <<uartPort, nDev, modeIdx, stopReq, results>>
    /\ inputsUnch

\* core.py 1585-1732: alternative k of the five tried after the loop failed;
\* every exception is swallowed
AltOutcomes(k, u) ==
    CASE k = 1 ->
           { [succ |-> o.res = "true", wire |-> FALSE, u |-> o.u] : o \in CheckCurrentMode(u, 2) }
      [] k \in {2, 3, 5} ->
           { [succ |-> o.res = "true", wire |-> o.wire, u |-> o.u] : o \in SendCommandUart(u) }
      [] k = 4 ->
           IF u # "open" THEN { [succ |-> FALSE, wire |-> FALSE, u |-> u] }
           ELSE UNION { IF w.ok
                        THEN { [succ |-> o.res = "true", wire |-> w.wire, u |-> o.u] :
                                 o \in CheckCurrentMode(u, 3) }
                        ELSE { [succ |-> FALSE, wire |-> w.wire, u |-> u] }
                        : w \in DirectWrite(u) }

MsAlt ==
    /\ pc = "ms_alt"
    /\ \E o \in AltOutcomes(attempt + 1, uart) :
         /\ uart' = o.u
         /\ IF o.succ
            THEN /\ Goto("ms_confirm") /\ attempt' = 0
                 /\ h' = [h EXCEPT !.switched = IF o.wire THEN @ \cup {Mode} ELSE @]
                 /\ UNCHANGED <<modeIdx, results>>
            ELSE IF attempt + 1 < ModeSwitchAlternatives
            THEN /\ Goto("ms_alt") /\ attempt' = attempt + 1
                 /\ h' = [h EXCEPT !.switched = IF o.wire THEN @ \cup {Mode} ELSE @]
                 /\ UNCHANGED <<modeIdx, results>>
            ELSE /\ ModeSwitchFailed
                 /\ h' = [h EXCEPT !.switched = IF o.wire THEN @ \cup {Mode} ELSE @,
                                   !.msFailed = @ \cup {Mode}]
    /\ UNCHANGED <<uartPort, nDev, stopReq>>
    /\ inputsUnch

\* core.py 1769-1799: up to three rounds of check_current_mode(max_retries=2)
MsConfirm ==
    /\ pc = "ms_confirm"
    /\ \E o \in CheckCurrentMode(uart, 2) :
         /\ uart' = o.u
         /\ IF o.res = "raise"
            THEN Return("exception") /\ UNCHANGED <<modeIdx, attempt, results, h>>
            ELSE IF o.res = "true"
            THEN /\ Goto("stabilize") /\ attempt' = 0 /\ UNCHANGED <<modeIdx, results>>
                 /\ h' = [h EXCEPT !.confirmedBy = o.by]
            ELSE IF attempt + 1 < ModeCheckRetries
            THEN Goto("ms_confirm") /\ attempt' = attempt + 1
                 /\ UNCHANGED <<modeIdx, results, h>>
            ELSE ModeSwitchFailed /\ h' = [h EXCEPT !.msFailed = @ \cup {Mode}]
    /\ UNCHANGED <<uartPort, nDev, stopReq>>
    /\ inputsUnch

\* core.py 1813-1819: the settle delay, polling stop_check_callback
Stabilize ==
    /\ pc = "stabilize"
    /\ IF stopReq THEN Return("stopped") ELSE Goto("reenum")
    /\ attempt' = 0
    /\ UNCHANGED <<uartPort, nDev, uart, modeIdx, stopReq, results, h>>
    /\ inputsUnch

ReenumRetriesForever ==
    /\ pc = "reenum"
    /\ \E n \in FindDevices :
         /\ nDev' = IF n < 0 THEN nDev ELSE n
         /\ IF n < 0
            THEN Return("exception") /\ UNCHANGED <<modeIdx, attempt, results, h>>
            ELSE IF n > 0 /\ devIndex <= n
            THEN /\ (IF stopReq THEN Return("stopped") ELSE Goto("load_fw"))
                 /\ UNCHANGED <<modeIdx, attempt, results, h>>
            ELSE IF attempt + 1 < ReenumRetries
            THEN Goto("reenum") /\ attempt' = attempt + 1
                 /\ UNCHANGED <<modeIdx, results, h>>
            ELSE Goto("reenum") /\ attempt' = 0 /\ UNCHANGED <<modeIdx, results, h>>
    /\ UNCHANGED <<uartPort, uart, stopReq>>
    /\ inputsUnch

\* core.py 1824-1864: probe re-discovery and re-selection
Reenum ==
    /\ pc = "reenum"
    /\ \E n \in FindDevices :
         /\ nDev' = IF n < 0 THEN nDev ELSE n
         /\ IF n < 0
            THEN Return("exception") /\ UNCHANGED <<modeIdx, attempt, results, h>>
            ELSE IF n > 0 /\ devIndex <= n
            THEN /\ (IF stopReq THEN Return("stopped") ELSE Goto("load_fw"))
                 /\ UNCHANGED <<modeIdx, attempt, results, h>>
            ELSE IF attempt + 1 < ReenumRetries
            THEN Goto("reenum") /\ attempt' = attempt + 1
                 /\ UNCHANGED <<modeIdx, results, h>>
            ELSE ModeSwitchFailed /\ h' = [h EXCEPT !.msFailed = @ \cup {Mode}]
    /\ UNCHANGED <<uartPort, uart, stopReq>>
    /\ inputsUnch

\* core.py 1875-1885: load_firmware_image; FileNotFoundError and ValueError
\* fail the image, any other exception leaves the try block
LoadFw ==
    /\ pc = "load_fw"
    /\ \E o \in {"ok", "fail", "raise"}, d \in RunImages :
         CASE o = "ok" ->
                /\ Goto("pre_write") /\ wb' = [WbIdle EXCEPT !.data = d]
                /\ UNCHANGED <<modeIdx, attempt, results>>
           [] o = "fail" ->
                /\ results' = [results EXCEPT ![Mode] = "fail"] /\ NextImage
                /\ wb' = wb
           [] o = "raise" ->
                /\ Return("exception") /\ wb' = wb
                /\ UNCHANGED <<modeIdx, attempt, results>>
    /\ UNCHANGED <<cfg, portGiven, devIndex, ds, sc, cu, tp, vs, sv, gui, pg, uartPort, nDev, uart, stopReq, h>>

\* core.py 1903-1906: the last stop check before the flash write, then the call
PreWrite ==
    /\ pc = "pre_write"
    /\ IF stopReq
       THEN Return("stopped") /\ wb' = WbIdle /\ h' = h
       ELSE /\ Goto("write_call")
            /\ wb' = WbCall("run", TRUE, wb.data)
            /\ h' = [h EXCEPT !.flashed = @ \cup {Mode}, !.confirmedBy = "none"]
    /\ UNCHANGED <<cfg, portGiven, devIndex, ds, sc, cu, tp, vs, sv, gui, pg, uartPort, nDev, uart, modeIdx, attempt,
                   stopReq, results>>

\* core.py 1917-1928: a failed write_bytes ends the run with its detail
WriteFailedContinues ==
    /\ results' = [results EXCEPT ![Mode] = "fail"]
    /\ NextImage

WriteFailed ==
    /\ results' = [results EXCEPT ![Mode] = "fail"]
    /\ ReturnWith("write_failed", wb.out.detail)
    /\ UNCHANGED <<modeIdx, attempt>>

\* core.py 1906-1928: write_bytes returned (or raised)
WriteReturn ==
    /\ pc = "write_call" /\ wb.pc = "done"
    /\ CASE wb.out.status = "raise" ->
              Return("exception") /\ h' = h /\ UNCHANGED <<modeIdx, attempt, results>>
         [] wb.out.status = "fail" ->
              WriteFailed /\ h' = [h EXCEPT !.failedWrite = Mode]
         [] wb.out.status = "ok" ->
              /\ Goto("pcycle_off") /\ h' = [h EXCEPT !.verified = @ \cup {Mode}]
              /\ UNCHANGED <<modeIdx, attempt, results>>
    /\ wb' = WbIdle
    /\ UNCHANGED <<cfg, portGiven, devIndex, ds, sc, cu, tp, vs, sv, gui, pg, uartPort, nDev, uart, stopReq>>

\* core.py 1938-1949: first half of the power cycle after a verified write
PcycleOff ==
    /\ pc = "pcycle_off"
    /\ \E o \in SendCommandUart(uart) :
         /\ uart' = o.u
         /\ h' = [Pwr(h, "OFF", o.wire) EXCEPT !.offCycle = @ + 1]
         /\ IF o.res = "raise" THEN Return("exception") ELSE Goto("pcycle_on")
    /\ UNCHANGED <<uartPort, nDev, modeIdx, attempt, stopReq, results>>
    /\ inputsUnch

\* core.py 1951-1974: second half of the power cycle; the image is recorded
PcycleOn ==
    /\ pc = "pcycle_on"
    /\ \E o \in SendCommandUart(uart) :
         /\ uart' = o.u
         /\ h' = Pwr(h, "ON", o.wire)
         /\ IF o.res = "raise"
            THEN Return("exception") /\ UNCHANGED <<modeIdx, attempt, results>>
            ELSE /\ results' = [results EXCEPT ![Mode] = "ok"]
                 /\ IF Mode = "LV"
                    THEN Goto("lv_wait") /\ UNCHANGED <<modeIdx, attempt>>
                    ELSE NextImage
    /\ UNCHANGED <<uartPort, nDev, stopReq>>
    /\ inputsUnch

\* core.py 1976-1988: settle wait after the LV image, polling stop_check_callback
LvWait ==
    /\ pc = "lv_wait"
    /\ IF stopReq THEN Return("stopped") ELSE Goto("lv_reconnect")
    /\ attempt' = 0
    /\ UNCHANGED <<uartPort, nDev, uart, modeIdx, stopReq, results, h>>
    /\ inputsUnch

LvReconnectFailureAborts ==
    /\ pc = "lv_reconnect"
    /\ IF stopReq
       THEN Return("stopped") /\ UNCHANGED <<nDev, modeIdx, attempt>>
       ELSE \E n \in FindDevices :
              /\ nDev' = IF n < 0 THEN nDev ELSE n
              /\ IF n < 0 THEN Return("exception") /\ UNCHANGED <<modeIdx, attempt>>
                 ELSE IF n > 0 /\ devIndex <= n
                 THEN NextImage
                 ELSE IF attempt + 1 >= ReconnectRetries
                 THEN Return("mode_failed") /\ UNCHANGED <<modeIdx, attempt>>
                 ELSE Goto("lv_reconnect") /\ attempt' = attempt + 1 /\ modeIdx' = modeIdx
    /\ UNCHANGED <<uartPort, uart, stopReq, results, h>>
    /\ inputsUnch

\* core.py 1990-2039: forced probe re-discovery after the LV image; failing to
\* re-select the probe does not end the run
LvReconnect ==
    /\ pc = "lv_reconnect"
    /\ IF stopReq
       THEN Return("stopped") /\ UNCHANGED <<nDev, modeIdx, attempt>>
       ELSE \E n \in FindDevices :
              /\ nDev' = IF n < 0 THEN nDev ELSE n
              /\ IF n < 0 THEN Return("exception") /\ UNCHANGED <<modeIdx, attempt>>
                 ELSE IF (n > 0 /\ devIndex <= n) \/ attempt + 1 >= ReconnectRetries
                 THEN NextImage
                 ELSE Goto("lv_reconnect") /\ attempt' = attempt + 1 /\ modeIdx' = modeIdx
    /\ UNCHANGED <<uartPort, uart, stopReq, results, h>>
    /\ inputsUnch

\* core.py 2041-2083 without the run_test_plan call: the verdict over results
Summary ==
    /\ pc = "summary"
    /\ IF \A m \in Range(cfg) : results[m] = "ok"
       THEN IF uart = "open"
            THEN Goto("test") /\ h' = h
            ELSE Return("success") /\ h' = [h EXCEPT !.testState = "skipped"]
       ELSE Return("mode_failed") /\ h' = h
    /\ UNCHANGED <<uartPort, nDev, uart, modeIdx, attempt, stopReq, results>>
    /\ inputsUnch

\* core.py 2051-2081 with run_test_plan (core.py 691-1143) as one call: it
\* refuses a handle that is not open, otherwise runs the plan, which passes,
\* fails or raises
Test ==
    /\ pc = "test"
    /\ IF uart # "open"
       THEN Return("tests_failed") /\ uart' = uart /\ h' = [h EXCEPT !.testState = "refused"]
       ELSE \E o \in {"passed", "failed", "raised"}, u \in UartStates :
              /\ uart' = u
              /\ h' = [h EXCEPT !.testState = o]
              /\ CASE o = "passed" -> Return("success")
                   [] o = "failed" -> Return("tests_failed")
                   [] o = "raised" -> Return("exception")
    /\ UNCHANGED <<uartPort, nDev, modeIdx, attempt, stopReq, results>>
    /\ inputsUnch

\* core.py 2099-2168: the finally block's power-off
FinallySkipsPowerOff ==
    /\ pc = "finally"
    /\ h' = [h EXCEPT !.finallyRan = TRUE, !.openAtExit = (uart = "open")]
    /\ uart' = uart
    /\ pc' = "close"
    /\ UNCHANGED <<uartPort, nDev, modeIdx, attempt, stopReq, results, ret, retDetail>>
    /\ inputsUnch

FinallyTwoCalls ==
    /\ pc = "finally"
    /\ LET h0 == [h EXCEPT !.finallyRan = TRUE, !.openAtExit = (uart = "open")]
       IN  IF uart # "open"
           THEN uart' = uart /\ h' = h0
           ELSE \E o \in SendCommandUart(uart), o2 \in SendCommandUart(uart) :
                  /\ uart' = o2.u
                  /\ h' = [Pwr(h0, "OFF", o.wire \/ o2.wire) EXCEPT !.offFinal = @ + 2]
    /\ pc' = "close"
    /\ UNCHANGED <<uartPort, nDev, modeIdx, attempt, stopReq, results, ret, retDetail>>
    /\ inputsUnch

Finally ==
    /\ pc = "finally"
    /\ LET h0 == [h EXCEPT !.finallyRan = TRUE, !.openAtExit = (uart = "open")]
       IN  IF uart # "open"
           THEN uart' = uart /\ h' = h0
           ELSE \E o \in SendCommandUart(uart) :
                  /\ uart' = o.u
                  /\ LET h1 == [Pwr(h0, "OFF", o.wire) EXCEPT !.offFinal = @ + 1]
                     IN  IF o.res = "raise" /\ o.u = "open"
                         THEN \E w \in DirectWrite("open") :
                                h' = [Pwr(h1, "OFF", w.wire) EXCEPT !.offFallback = @ + 1]
                         ELSE h' = h1
    /\ pc' = "close"
    /\ UNCHANGED <<uartPort, nDev, modeIdx, attempt, stopReq, results, ret, retDetail>>
    /\ inputsUnch

CloseKeepsHandle ==
    /\ pc = "close"
    /\ uart' = uart
    /\ pc' = "done"
    /\ UNCHANGED <<uartPort, nDev, modeIdx, attempt, stopReq, results, ret, retDetail, h>>
    /\ inputsUnch

\* core.py 2170-2171: programmer.close_uart()
Close ==
    /\ pc = "close"
    /\ uart' = "none"
    /\ pc' = "done"
    /\ UNCHANGED <<uartPort, nDev, modeIdx, attempt, stopReq, results, ret, retDetail, h>>
    /\ inputsUnch

(***************************************************************************)
(* The environment of a run.                                               *)
(***************************************************************************)
Running == pc \notin {"off", "done"}

\* the caller's stop flag becomes true (gui/main_window.py 52-53, server/app.py 139)
RequestStop ==
    /\ Running /\ ~stopReq
    /\ stopReq' = TRUE
    /\ h' = [h EXCEPT !.stopInWrite = IF pc = "write_call" THEN Mode ELSE @]
    /\ UNCHANGED <<pc, uartPort, nDev, uart, modeIdx, attempt, results, ret, retDetail>>
    /\ inputsUnch

\* the serial handle starts to report is_open False
PortVanish ==
    /\ Running /\ pc # "close" /\ uart = "open"
    /\ uart' = "closed"
    /\ UNCHANGED <<pc, uartPort, nDev, modeIdx, attempt, stopReq, results, ret, retDetail, h>>
    /\ inputsUnch

\* no send_command_uart call in this behaviour
ScIdle ==
    [pc |-> "idle", u |-> "none", expected |-> <<>>, a |-> 0, reopens |-> 0, wires |-> 0,
     stale |-> 0, windows |-> 0, buffer |-> <<>>, hasResponse |-> FALSE, response |-> <<>>,
     out |-> "none", endedBy |-> "none", phase |-> "none"]

\* no close_uart call in this behaviour
CuIdle ==
    [pc |-> "idle", u |-> "none", log |-> <<>>, log1 |-> <<>>, calls |-> 0, raised |-> FALSE]

TpIdle ==
    [pc |-> "idle", u |-> "none", loaded |-> FALSE, plan |-> <<>>, i |-> 1,
     attempted |-> <<>>, failed |-> {}, reported |-> {}, waited |-> {},
     passed |-> TRUE, out |-> "none",
     \* the validation loop of the last GET STATUS step reached (0: none yet)
     vstep |-> 0, va |-> 0, queries |-> 0, resends |-> 0, delays |-> <<>>, vok |-> FALSE]

VsIdle == [pc |-> "idle", status |-> <<>>, expected |-> <<>>, ignore |-> {},
           valid |-> FALSE, errors |-> {}]

\* start requests the HTTP server handles in one behaviour
MaxRequests == 3
Requests == 1..MaxRequests

\* no HTTP server in this behaviour (server/app.py 36-51: the initial
\* programming_state)
SvIdle ==
    [isProgramming |-> FALSE, stopRequested |-> FALSE,
     req |-> [r \in Requests |-> "absent"], worker |-> [r \in Requests |-> "none"]]

\* the serial ports of the machine
GuiPorts == {"COM1", "COM2"}

\* no GUI in this behaviour (gui/main_window.py 177, gui/serial_monitor.py)
GuiIdle ==
    [on |-> FALSE, isProgramming |-> FALSE, isStopping |-> FALSE,
     runPort |-> "COM1",        \* combobox_ports of the main window
     monitorSel |-> "COM1",     \* combobox_ports of the serial monitor
     monitorOpen |-> "none",    \* the port the monitor holds open
     thread |-> "none",         \* ProgrammingThread: none | started | in_run | ended | terminated
     threadPort |-> "none",     \* uart_port given to the thread
     stopRequested |-> FALSE,   \* ProgrammingThread._stop_requested
     finishedQueued |-> FALSE,  \* the finished signal is emitted and not yet delivered
     finallyRan |-> FALSE]      \* the finally block of program_device ran in the thread

\* no progress in this behaviour
PgIdle ==
    [pc |-> "idle", modes |-> <<>>, idx |-> 0, totalSteps |-> 0, step |-> 0,
     value |-> 0, calls |-> 0]

AppIdle == sv = SvIdle /\ gui = GuiIdle /\ pg = PgIdle

DsIdle ==
    [pc |-> "idle", dev |-> FALSE, bus |-> NoneInt, address |-> NoneInt, serial |-> <<>>,
     enumOk |-> TRUE, ports |-> <<>>, port |-> 0, by |-> "none"]

Init ==
    /\ pc = "start"
    /\ cfg \in {<<>>, <<"LV">>, <<"HV">>, <<"LV", "HV">>}
    /\ portGiven \in BOOLEAN
    /\ uartPort = portGiven
    /\ devIndex \in 0..MaxDevices
    /\ nDev = 0
    /\ uart = "none"
    /\ modeIdx = 1
    /\ attempt = 0
    /\ stopReq = FALSE
    /\ results = [m \in Modes |-> "unset"]
    /\ ret = "none"
    /\ retDetail = NoDetail
    /\ h = HInit
    /\ wb = WbIdle
    /\ ds = DsIdle /\ sc = ScIdle /\ cu = CuIdle /\ tp = TpIdle /\ vs = VsIdle /\ AppIdle

WriteBytesAbortsOnStop ==
    /\ pc = "write_call"
    /\ IF stopReq /\ wb.pc # "done"
       THEN /\ Return("stopped") /\ wb' = WbIdle
            /\ UNCHANGED <<cfg, portGiven, uartPort, devIndex, nDev, uart, modeIdx, attempt,
                           stopReq, results, h, ds, sc, cu, tp, vs, sv, gui, pg>>
       ELSE WriteBytesStep

\* core.py 1906: programmer.write_bytes(firmware_data, address) runs to its
\* return; program_device polls nothing while it does
WriteBytesOfRun == pc = "write_call" /\ WriteBytesStep

Next ==
    \/ Start \/ Select \/ OpenUart \/ PowerOn \/ LoopHead
    \/ MsSend \/ MsAlt \/ MsConfirm \/ Stabilize \/ Reenum
    \/ LoadFw \/ PreWrite \/ WriteBytesOfRun \/ WriteReturn
    \/ PcycleOff \/ PcycleOn \/ LvWait \/ LvReconnect
    \/ Summary \/ Test \/ Finally \/ Close
    \/ RequestStop \/ PortVanish

Spec == Init /\ [][Next]_vars

(***************************************************************************)
(* Properties of program_device.                                           *)
(***************************************************************************)
Exited == pc = "done"

\* the modes that follow mode m in firmware_configs
ModesAfter(m) ==
    {cfg[j] : j \in {k \in DOMAIN cfg : \E i \in DOMAIN cfg : cfg[i] = m /\ i < k}}

\* C1: every exit of program_device taken after the UART session was opened
\* goes through the finally block, and if the handle is still open when the
\* finally block looks at it, send_command_uart(SET EN_12V=OFF) is called
\* before the function returns.
C1_PowerOffOnEveryExit ==
    (Exited /\ h.everOpened) =>
        /\ h.finallyRan
        /\ (h.openAtExit => h.offFinal >= 1)

C1_Witness ==
    /\ Exited /\ h.everOpened /\ h.openAtExit /\ h.offFinal = 1
    /\ ret = "stopped" /\ h.lastPwr = "OFF"

\* C2: whenever a run ends after SET EN_12V=ON reached the board, the last
\* EN_12V command that reached the board in that run is OFF.
C2_BoardNeverLeftPowered ==
    (Exited /\ h.onWire) => h.lastPwr = "OFF"

\* C3, as the spec states it: SET EN_12V=OFF is attempted exactly once in a
\* run that ends with the handle open, by the exit path alone.
C3_PowerOffExactlyOnce ==
    (Exited /\ h.finallyRan /\ h.openAtExit) =>
        /\ h.offCycle = 0
        /\ h.offFinal + h.offFallback = 1

\* C3, amended: the finally block calls send_command_uart(SET EN_12V=OFF) at
\* most once, exactly once when the handle is open, and writes the command
\* directly at most once more; before the finally block the command is sent
\* only by the power-cycle step, at most once per image whose write was
\* verified.
C3_PowerOffAmended ==
    /\ h.offFinal <= 1
    /\ h.offFallback <= h.offFinal
    /\ h.offCycle <= Cardinality(h.verified)
    /\ (~h.finallyRan => h.offFinal = 0)
    /\ ((Exited /\ h.finallyRan /\ h.openAtExit) => h.offFinal = 1)

C3_Witness ==
    /\ Exited /\ h.openAtExit
    /\ h.offCycle = 2 /\ h.offFinal = 1 /\ h.offFallback = 1

\* C4: once write_bytes has failed for an image the run returns failure with
\* the detail write_bytes gave: it only runs its exit path, no later image is
\* mode-switched or flashed, and the test plan is not run.
C4_WriteFailureEndsRun ==
    h.failedWrite # "none" =>
        /\ pc \in {"finally", "close", "done"}
        /\ ret = "write_failed"
        /\ retDetail.kind \in {"verify_noread", "verify_mismatch", "backends"}
        /\ h.testState = "not_run"
        /\ \A m \in ModesAfter(h.failedWrite) : m \notin h.switched /\ m \notin h.flashed
        /\ results[h.failedWrite] = "fail"

C4_Witness ==
    /\ Exited /\ cfg = <<"LV", "HV">> /\ h.failedWrite = "LV"
    /\ retDetail.kind = "verify_mismatch"
    /\ h.finallyRan

\* C6: program_device returns (True, ...) only if every requested image was
\* written and verified and the test plan was executed and passed.
C6_SuccessMeansTested ==
    ret = "success" =>
        /\ \A m \in Range(cfg) : m \in h.verified
        /\ h.testState = "passed"

\* C7: if SET EN_12V=ON is not acknowledged the run returns failure without
\* sending a mode-switch command or invoking a flash backend, and the final
\* power-off command is still sent.
C7_PowerOnFailureIsFatal ==
    (Exited /\ ret = "power_on_failed") =>
        /\ h.switched = {} /\ h.flashed = {}
        /\ h.offFinal >= 1

\* C8: a mode switch that fails at any sub-step records the image as failed,
\* leaves the other image's result as it was, moves on to the next image
\* without returning, and the failed image is never flashed.
C8_ModeSwitchFailureContinues ==
    /\ [](h.msFailed \cap h.flashed = {})
    /\ [][ h'.msFailed # h.msFailed =>
             /\ h'.msFailed = h.msFailed \cup {Mode}
             /\ results' = [results EXCEPT ![Mode] = "fail"]
             /\ pc' = "loop_head" /\ modeIdx' = modeIdx + 1
             /\ ret' = "none" ]_vars

C8_Witness ==
    /\ Exited /\ cfg = <<"LV", "HV">>
    /\ results["LV"] = "ok" /\ results["HV"] = "fail" /\ "HV" \in h.msFailed
    /\ ret = "mode_failed"

\* C9: a stop requested while write_bytes is running is not acted on before
\* write_bytes (write and read-back verification) has returned, and a run
\* that ends by the stop still runs the finally block.
C9_StopNotHonouredInsideWrite ==
    /\ [][ (pc = "write_call" /\ pc' # "write_call") => wb.pc = "done" ]_vars
    /\ []((ret = "stopped" /\ h.stopInWrite # "none") => h.stopInWrite \in h.verified)
    /\ []((Exited /\ ret = "stopped") => h.finallyRan)

C9_Witness ==
    /\ Exited /\ ret = "stopped" /\ h.stopInWrite = "LV"
    /\ "LV" \in h.verified /\ h.finallyRan /\ h.offFinal = 1

(***************************************************************************)
(* BaseProgrammer.write_bytes on its own: any image, any backend outcomes.  *)
(***************************************************************************)
\* no program_device run in this behaviour
NoRun ==
    /\ pc = "off" /\ cfg = <<>> /\ portGiven = FALSE /\ uartPort = FALSE
    /\ devIndex = 1 /\ nDev = 0 /\ uart = "none" /\ modeIdx = 1 /\ attempt = 0
    /\ stopReq = FALSE /\ results = [m \in Modes |-> "unset"]
    /\ ret = "none" /\ retDetail = NoDetail /\ h = HInit

InitWrite ==
    /\ NoRun
    /\ \E sel \in BOOLEAN, d \in FirmwareImages : wb = WbCall("caller", sel, d)
    /\ ds = DsIdle /\ sc = ScIdle /\ cu = CuIdle /\ tp = TpIdle /\ vs = VsIdle /\ AppIdle

SpecWrite == InitWrite /\ [][WriteBytesStep]_vars

\* what _verify_write compares the image with: the read-back over the
\* image's range
ReadOverImage == Take(wb.read, Len(wb.data))

\* C5: write_bytes returns success only if a backend write succeeded and the
\* read-back was obtained and equals the written bytes over the image's
\* range; a successful write whose read-back differs or could not be
\* obtained returns (False, detail).
C5_SuccessOnlyWhenVerified ==
    wb.pc = "done" =>
        /\ wb.out.status = "ok" =>
             /\ wb.success /\ wb.by \in {"lib", "cube", "openocd", "usb"}
             /\ wb.gotRead /\ ReadOverImage = wb.data
        /\ (wb.success /\ ~wb.gotRead) =>
             wb.out.status = "fail" /\ wb.out.detail.kind = "verify_noread"
        /\ (wb.success /\ wb.gotRead /\ ReadOverImage # wb.data) =>
             wb.out.status = "fail" /\ wb.out.detail.kind = "verify_mismatch"

C5_Witness ==
    /\ wb.pc = "done" /\ wb.out.status = "ok" /\ wb.by = "usb"
    /\ Len(wb.data) = MaxDataLen /\ ReadOverImage = wb.data

(***************************************************************************)
(* detect_serial_port on its own: any probe, any enumeration.               *)
(***************************************************************************)
MaxUsbNum == 1           \* USB bus and address numbers

UsbNums == {NoneInt} \cup (1..MaxUsbNum)

ProbeSerials == {<<>>, <<"b">>, <<"A", "B", "C">>}
PortSerials == {<<>>, <<"a", "B">>, <<"d">>}
Descriptions == {<<>>, <<"S", "t", "-", "L", "i", "n", "k">>, <<"S", "T", "L", "I", "N", "K">>}

\* hardware-id texts: nothing, or one of the forms a pattern looks for
HwidTexts ==
    {<<>>} \cup UNION { { <<":">> \o Pad3(n) \o <<".">>,
                          <<":">> \o Pad3(n) \o <<":">>,
                          <<"B", "U", "S">> \o Pad3(n),
                          <<"b", "u", "s">> \o DecStr(n),
                          <<"B", "u", "s", " ">> \o DecStr(n),
                          <<"A", "D", "D", "R">> \o Pad3(n) } : n \in 1..MaxUsbNum }

\* a port of list_ports.comports(): vid/pid given ("target": 1A86:7523,
\* "other") or None ("none"), and then the hwid may carry the signature
Ports ==
    { [vidpid |-> v, hwid |-> t, serial |-> sn, desc |-> de] :
        v \in {"target", "other"}, t \in HwidTexts, sn \in PortSerials, de \in Descriptions }
    \cup
    { [vidpid |-> "none", hwid |-> Lower(Signature) \o <<" ">> \o t, serial |-> sn, desc |-> de] :
        t \in HwidTexts, sn \in PortSerials, de \in Descriptions }

PortLists == UNION {[1..k -> Ports] : k \in 0..MaxPorts}

InitDetect ==
    /\ NoRun /\ wb = WbIdle /\ sc = ScIdle /\ cu = CuIdle /\ tp = TpIdle /\ vs = VsIdle /\ AppIdle
    /\ \/ \E b \in UsbNums, a \in UsbNums, sn \in ProbeSerials, ps \in PortLists :
            ds = [DsIdle EXCEPT !.pc = "call", !.dev = TRUE, !.bus = b, !.address = a,
                                !.serial = sn, !.ports = ps]
       \/ ds = [DsIdle EXCEPT !.pc = "call", !.dev = TRUE, !.enumOk = FALSE]
       \/ ds = [DsIdle EXCEPT !.pc = "call"]

DsDone(p, how) ==
    /\ ds' = [ds EXCEPT !.pc = "done", !.port = p, !.by = how]
    /\ UNCHANGED <<runVars, wb, sc, cu, tp, vs, sv, gui, pg>>

\* core.py 132-133
DsNoDevice ==
    /\ ds.pc = "call" /\ ~ds.dev
    /\ DsDone(0, "no_device")

\* core.py 135-138
DsEnumError ==
    /\ ds.pc = "call" /\ ds.dev /\ ~ds.enumOk
    /\ DsDone(0, "enum_error")

\* core.py 140-141
DsNoPorts ==
    /\ ds.pc = "call" /\ ds.dev /\ ds.enumOk /\ ds.ports = <<>>
    /\ DsDone(0, "no_ports")

\* core.py 153-159
DsNoTarget ==
    /\ ds.pc = "call" /\ ds.dev /\ ds.enumOk /\ ds.ports # <<>>
    /\ MatchingPorts(ds) = {}
    /\ DsDone(0, "no_target")

\* core.py 161-249: the loop and the returns after it
DsPair ==
    /\ ds.pc = "call" /\ ds.dev /\ ds.enumOk
    /\ MatchingPorts(ds) # {}
    /\ \E f \in {FoundPort(ds)} :
         IF f.port # 0 THEN DsDone(f.port, f.by)
         ELSE IF Cardinality(MatchingPorts(ds)) = 1
         THEN DsDone(CHOOSE i \in MatchingPorts(ds) : TRUE, "single")
         ELSE DsDone(0, "ambiguous")

NextDetect == DsNoDevice \/ DsEnumError \/ DsNoPorts \/ DsNoTarget \/ DsPair

SpecDetect == InitDetect /\ [][NextDetect]_vars

\* C10: detect_serial_port returns a port only when exactly one candidate
\* exists or the signal that decided singles out exactly one candidate; with
\* two or more candidates matching that signal it returns None.
C10_ReturnsOnlyUniqueMatch ==
    (ds.pc = "done" /\ ds.port # 0) =>
        \/ Cardinality(MatchingPorts(ds)) = 1
        \/ Cardinality({i \in MatchingPorts(ds) : SignalMatches(ds.by, ds, ds.ports[i])}) = 1

\* the candidates: the enumerated ports that pass the 0x1A86/0x7523 filter
Candidates == {i \in DOMAIN ds.ports : IsTargetUart(ds.ports[i])}

\* the candidates a signal accepts
AcceptedBy(sig) == {i \in Candidates : SignalMatches(sig, ds, ds.ports[i])}

\* the signals in the order of priority the spec gives them
SignalOrder == <<"serial", "bus", "address", "description">>

\* the loop over the candidates is entered (core.py 164)
HasProbeData == ds.bus # NoneInt \/ ds.address # NoneInt \/ ds.serial # <<>>

\* C11: detect_serial_port applies the signals in priority order across all
\* candidates: when the highest-priority signal that accepts any candidate
\* accepts exactly one, that candidate is returned, wherever it stands in the
\* enumeration.
C11_PriorityAcrossCandidates ==
    (ds.pc = "done" /\ ds.dev /\ ds.enumOk /\ HasProbeData) =>
        \A k \in DOMAIN SignalOrder :
            ( /\ Cardinality(AcceptedBy(SignalOrder[k])) = 1
              /\ \A j \in 1..(k - 1) : AcceptedBy(SignalOrder[j]) = {} )
            => ds.port \in AcceptedBy(SignalOrder[k])

\* C12: when no candidate is accepted by any signal, detect_serial_port
\* returns the candidate if there is exactly one and None otherwise; what it
\* returns is always None or a port that passes the 0x1A86/0x7523 filter.
C12_SingleCandidateFallback ==
    ds.pc = "done" =>
        /\ ds.port # 0 => (ds.port \in DOMAIN ds.ports /\ IsTargetUart(ds.ports[ds.port]))
        /\ (\A sig \in {"serial", "bus", "address", "description"} : AcceptedBy(sig) = {}) =>
             IF ds.dev /\ ds.enumOk /\ Cardinality(Candidates) = 1
             THEN ds.port \in Candidates /\ ds.by = "single"
             ELSE ds.port = 0

C12_Witness ==
    /\ ds.pc = "done" /\ ds.by = "single" /\ ds.port = 2
    /\ Len(ds.ports) = 2 /\ ds.ports[1].vidpid = "other" /\ ds.ports[1].desc # <<>>
    /\ HasProbeData

\* the run got past the probe selection and resolved the UART port
PairingRan == ret \notin {"none", "no_devices", "raised", "bad_index"}

\* C13: when no UART port is supplied and auto-pairing returns None, the run
\* tells the caller that manual port selection is required, and sends no
\* command to any serial port.
C13_ManualSelectionReported ==
    (Exited /\ ~portGiven /\ ~uartPort /\ PairingRan) =>
        /\ ret = "manual_port_required"
        /\ ~h.everOpened /\ h.lastPwr = "none" /\ h.switched = {}

\* C20: program_device never raises: every failure is returned to the caller
\* as (False, message).
C20_NeverRaises ==
    Exited => ret # "raised"

(***************************************************************************)
(* BaseProgrammer.send_command_uart (base.py 1266-1737) step by step, with  *)
(* the bytes of the response.                                              *)
(***************************************************************************)
MaxRespLen == 3          \* bytes the serial port delivers during one call

CR == 13
LF == 10
SP == 32

\* what bytes.strip() removes
Whitespace == {9, 10, 11, 12, 13, 32}

\* the bytes a response is made of: "E", "N", CR, LF, space
RespBytes == {69, 78, CR, LF, SP}

\* the expected_response of a call
ExpectedResponses == {<<69>>, <<69, 78>>}

\* bytes.lstrip(chars) and bytes.rstrip(chars)
RECURSIVE LStrip(_, _)
LStrip(b, chars) ==
    IF Len(b) > 0 /\ b[1] \in chars THEN LStrip(Tail(b), chars) ELSE b

RECURSIVE RStrip(_, _)
RStrip(b, chars) ==
    IF Len(b) > 0 /\ b[Len(b)] \in chars THEN RStrip(SubSeq(b, 1, Len(b) - 1), chars) ELSE b

\* base.py 1651-1652: buffer.strip() then .rstrip(b"\r\n").rstrip(b"\n\r")
ProcessResponse(buffer) ==
    RStrip(RStrip(RStrip(LStrip(buffer, Whitespace), Whitespace), {CR, LF}), {LF, CR})

\* Python's  p in s  on bytes
InBytes(p, b) == \E i \in 0..(Len(b) - Len(p)) : SubSeq(b, i + 1, i + Len(p)) = p

\* base.py 1616-1626: the read loop stops once the buffer holds a CR or LF or
\* the expected response
ReadComplete(buffer, expected) ==
    \/ \E i \in DOMAIN buffer : buffer[i] \in {CR, LF}
    \/ InBytes(expected, buffer)

ScEnd(c, out, why, phase) ==
    [c EXCEPT !.pc = "done", !.out = out, !.endedBy = why, !.phase = phase]

scUnch == UNCHANGED <<runVars, wb, ds, cu, tp, vs, sv, gui, pg>>

\* base.py 1330-1357: the handle is None, or is_open raises or is False
ScEntry ==
    /\ sc.pc = "entry"
    /\ \/ /\ sc.u = "none"
          /\ sc' = ScEnd(sc, "raise", "closed", "entry")
       \/ /\ sc.u = "closed"
          /\ \E drop \in BOOLEAN :
               sc' = ScEnd([sc EXCEPT !.u = IF drop THEN "none" ELSE @], "raise", "closed", "entry")
       \/ /\ sc.u = "open"
          /\ sc' = [sc EXCEPT !.pc = "clear"]
    /\ scUnch

\* base.py 1360-1464: timeout and in_waiting diagnostics, then the input
\* buffer is cleared
ScClear ==
    /\ sc.pc = "clear"
    /\ \/ /\ sc.u = "closed"                 \* "if not is_open: return False"
          /\ sc' = ScEnd(sc, "false", "closed", "clear")
       \/ /\ sc.u = "open"
          /\ \E o \in {"ok", "access", "closed", "other"} :
               sc' = CASE o = "ok" -> [sc EXCEPT !.pc = "precheck"]
                       [] o = "access" -> ScEnd(sc, "raise", "access", "clear")
                       [] o = "closed" ->
                            ScEnd([sc EXCEPT !.u = "closed"], "raise", "closed", "clear")
                       [] o = "other" -> ScEnd(sc, "false", "error", "clear")
    /\ scUnch

\* base.py 1466-1484: is_open is looked at again before the write
ScPrecheck ==
    /\ sc.pc = "precheck"
    /\ sc' = IF sc.u = "open" THEN [sc EXCEPT !.pc = "write", !.a = 0]
             ELSE ScEnd(sc, "raise", "closed", "precheck")
    /\ scUnch

\* one close_uart + connect_to_uart_port cycle of _safe_uart_write, after
\* which the loop continues with the next attempt
ScReopen(c, onWire) ==
    { [c EXCEPT !.u = v, !.a = @ + 1, !.reopens = @ + 1,
                !.wires = IF onWire THEN @ + 1 ELSE @] : v \in {"open", "none"} }

\* base.py 321-464 with attempt = max_retries: a handle that is None (373) or
\* whose is_open raises (420) ends the call; a handle whose is_open is False
\* passes "if attempt < max_retries" (429) without a raise, so write() is
\* called on it (470) and its error becomes the final RuntimeError (566-570)
LastAttemptNotOpen(c) ==
    { ScEnd(c, "raise", "closed", "write") } \cup
    IF c.u = "closed"
    THEN { ScEnd([c EXCEPT !.stale = @ + 1], "raise", "closed", "write") }
    ELSE {}

\* base.py 296-574 (called at base.py 1497-1499): one pass of the loop
\* "for attempt in range(max_retries + 1)"
ScWrite ==
    /\ sc.pc = "write"
    /\ \/ /\ sc.u # "open"               \* handle None, not open, or is_open raises
          /\ IF sc.a < SafeWriteMaxRetries
             THEN sc' \in ScReopen(sc, FALSE)
             ELSE sc' \in LastAttemptNotOpen(sc)
       \/ /\ sc.u = "open"               \* write() and flush() succeed
          /\ sc' = [sc EXCEPT !.pc = "read", !.wires = @ + 1, !.windows = 1]
       \/ /\ sc.u = "open"               \* write() or flush() raises "closed"
          /\ \E onWire \in BOOLEAN :
               IF sc.a < SafeWriteMaxRetries
               THEN sc' \in ScReopen(sc, onWire)
               ELSE sc' = ScEnd([sc EXCEPT !.wires = IF onWire THEN @ + 1 ELSE @],
                                "raise", "closed", "write")
       \/ /\ sc.u = "open"               \* write() or flush() raises another error
          /\ \E onWire \in BOOLEAN :
               LET c == [sc EXCEPT !.wires = IF onWire THEN @ + 1 ELSE @]
               IN  IF sc.a < SafeWriteMaxRetries
                   THEN sc' = [c EXCEPT !.a = @ + 1]
                   ELSE sc' = ScEnd(c, "raise", "error", "write")
    /\ scUnch

\* base.py 1575-1645: one pass of the read loop
ScRead ==
    /\ sc.pc = "read"
    /\ \/ /\ sc.u = "closed"             \* is_open False: break
          /\ sc' = [sc EXCEPT !.pc = "compare", !.endedBy = "closed", !.phase = "read"]
       \/ /\ sc.u = "closed"             \* is_open raises: RuntimeError, caught at 1666
          /\ sc' = ScEnd(sc, "false", "closed", "read")
       \/ /\ sc.u = "open"               \* in_waiting > 0: a chunk is read
          /\ \E chunk \in SeqsUpTo(RespBytes, MaxRespLen - Len(sc.buffer)) \ {<<>>} :
               LET b == sc.buffer \o chunk
               IN  sc' = [sc EXCEPT !.buffer = b,
                                    !.pc = IF ReadComplete(b, sc.expected)
                                           THEN "compare" ELSE "read"]
       \/ /\ sc.u = "open"               \* in_waiting or read raises "closed"
          /\ sc' = ScEnd([sc EXCEPT !.u = "closed"], "false", "closed", "read")
       \/ /\ sc.u = "open"               \* another read error: break
          /\ sc' = [sc EXCEPT !.pc = "compare", !.endedBy = "error", !.phase = "read"]
       \/ /\ sc.u = "open"               \* max_wait_time elapsed
          /\ sc' = [sc EXCEPT !.pc = "compare"]
    /\ scUnch

\* base.py 1647-1737: the response is processed and compared
ScCompare ==
    /\ sc.pc = "compare"
    /\ LET has == sc.buffer # <<>>
           resp == IF has THEN ProcessResponse(sc.buffer) ELSE <<>>
           c == [sc EXCEPT !.hasResponse = has, !.response = resp]
           why == IF sc.endedBy = "none" THEN "compare" ELSE sc.endedBy
       IN  IF has /\ resp = sc.expected
           THEN sc' = ScEnd(c, "true", why, "compare")
           ELSE \/ sc' = ScEnd(c, "false", why, "compare")
                \/ /\ ~has /\ sc.endedBy = "none"    \* win32 diagnostics: access error
                   /\ sc' = ScEnd(c, "raise", "access", "compare")
    /\ scUnch

\* the serial handle starts to report is_open False during the call
ScPortVanish ==
    /\ sc.pc \in {"clear", "precheck", "write", "read"} /\ sc.u = "open"
    /\ sc' = [sc EXCEPT !.u = "closed"]
    /\ scUnch

InitSend ==
    /\ NoRun /\ wb = WbIdle /\ ds = DsIdle /\ cu = CuIdle /\ tp = TpIdle /\ vs = VsIdle /\ AppIdle
    /\ \E u0 \in UartStates, e \in ExpectedResponses :
         sc = [ScIdle EXCEPT !.pc = "entry", !.u = u0, !.expected = e]

NextSend ==
    \/ ScEntry \/ ScClear \/ ScPrecheck \/ ScWrite \/ ScRead \/ ScCompare
    \/ ScPortVanish

SpecSend == InitSend /\ [][NextSend]_vars

\* a captured response without its trailing line terminator: one CRLF, or
\* one CR, or one LF
StripOneTerminator(b) ==
    IF Len(b) >= 2 /\ b[Len(b) - 1] = CR /\ b[Len(b)] = LF THEN SubSeq(b, 1, Len(b) - 2)
    ELSE IF Len(b) >= 1 /\ b[Len(b)] \in {CR, LF} THEN SubSeq(b, 1, Len(b) - 1)
    ELSE b

\* the call reached the comparison of the response
Compared == sc.pc = "done" /\ sc.phase = "compare"

\* C14: send_command_uart returns True iff the captured response without its
\* trailing line terminator is byte-for-byte equal to the expected response.
C14_TrueIffEqual ==
    Compared => (sc.out = "true" <=> StripOneTerminator(sc.buffer) = sc.expected)

\* C15: before the comparison send_command_uart removes exactly one trailing
\* CR, LF or CRLF from the captured response and no other byte.
C15_StripsOneTerminator ==
    (Compared /\ sc.hasResponse) => sc.response = StripOneTerminator(sc.buffer)

\* C16: one send_command_uart call puts its command on the wire once, and
\* after a first read window that captured no bytes it reads for one more,
\* delayed window.
C16_OneSendOneLateWindow ==
    (sc.pc = "done" /\ sc.windows >= 1) =>
        /\ sc.wires = 1
        /\ (sc.buffer = <<>> /\ sc.endedBy = "compare") => sc.windows = 2

\* C17: a call that ends because the handle was found closed ends only after
\* the close/reopen/retry cycles were all tried.
C17_ClosedFailsOnlyAfterRetries ==
    (sc.pc = "done" /\ sc.endedBy = "closed") => sc.reopens = SafeWriteMaxRetries

\* C18: a call that ends because the handle was found closed raises the
\* RuntimeError tagged "I/O operation on closed file" in every phase; it never
\* returns False as a protocol mismatch does.
C18_ClosedIsRaised ==
    (sc.pc = "done" /\ sc.endedBy = "closed") => sc.out = "raise"

(***************************************************************************)
(* BaseProgrammer.close_uart (base.py 576-667) step by step.               *)
(***************************************************************************)
\* what one call on the serial object does: it succeeds, raises an OSError
\* naming a closed port, raises another OSError/ValueError, or raises an
\* exception of another class
SerialOutcomes == {"ok", "closed", "oserror", "other"}

CuLog(c, step, res) == [c EXCEPT !.log = Append(@, <<step, res>>)]

\* close_uart returns: selected_uart is None
CuDone(c) == [c EXCEPT !.pc = "done", !.u = "none"]

CuOuterExceptReraises(c) == [c EXCEPT !.pc = "done", !.raised = TRUE]

\* base.py 658-667: the outer handlers log and set selected_uart = None
CuOuterExcept(c) == CuDone(c)

cuUnch == UNCHANGED <<runVars, wb, ds, sc, tp, vs, sv, gui, pg>>

\* base.py 577: nothing to do when selected_uart is None
CuCall ==
    /\ cu.pc = "call"
    /\ cu' = IF cu.u = "none" THEN CuDone(cu) ELSE [cu EXCEPT !.pc = "check"]
    /\ cuUnch

\* base.py 585-599: is_open, which can itself raise on a dead handle
CuCheck ==
    /\ cu.pc = "check"
    /\ \E o \in SerialOutcomes :
         cu' = CASE o = "ok" ->
                      IF cu.u = "open" THEN CuLog([cu EXCEPT !.pc = "drain"], "check", o)
                      ELSE CuDone(CuLog(cu, "check", o))       \* is_open False
                 [] o = "closed" -> CuDone(CuLog(cu, "check", o))
                 [] OTHER -> CuOuterExcept(CuLog(cu, "check", o))
    /\ cuUnch

\* one guarded step of the open branch: an OSError or ValueError is logged and
\* the next step follows, any other exception reaches the outer handler
CuGuarded(c, here, next, o) ==
    IF o = "other"
    THEN CuOuterExcept(CuLog(c, here, o))
    ELSE CuLog([c EXCEPT !.pc = next], here, o)

\* base.py 601-612: read whatever is waiting
CuDrain ==
    /\ cu.pc = "drain"
    /\ \E o \in SerialOutcomes : cu' = CuGuarded(cu, "drain", "reset", o)
    /\ cuUnch

\* base.py 614-622: reset_input_buffer, reset_output_buffer
CuReset ==
    /\ cu.pc = "reset"
    /\ \E o \in SerialOutcomes : cu' = CuGuarded(cu, "reset", "drain2", o)
    /\ cuUnch

\* base.py 624-637: read what arrived meanwhile
CuDrain2 ==
    /\ cu.pc = "drain2"
    /\ \E o \in SerialOutcomes : cu' = CuGuarded(cu, "drain2", "close", o)
    /\ cuUnch

\* base.py 639-646: close()
CuClose ==
    /\ cu.pc = "close"
    /\ \E o \in SerialOutcomes : cu' = CuGuarded(cu, "close", "release", o)
    /\ cuUnch

\* base.py 648-657: the settle sleep, then selected_uart = None
CuRelease ==
    /\ cu.pc = "release"
    /\ cu' = CuDone(cu)
    /\ cuUnch

\* close_uart is called once more on the same programmer
CuCallAgain ==
    /\ cu.pc = "done" /\ cu.calls = 1 /\ ~cu.raised
    /\ cu' = [cu EXCEPT !.pc = "call", !.calls = 2, !.log1 = cu.log]
    /\ cuUnch

InitClose ==
    /\ NoRun /\ wb = WbIdle /\ ds = DsIdle /\ sc = ScIdle /\ tp = TpIdle /\ vs = VsIdle /\ AppIdle
    /\ \E u0 \in UartStates : cu = [CuIdle EXCEPT !.pc = "call", !.u = u0, !.calls = 1]

NextClose ==
    \/ CuCall \/ CuCheck \/ CuDrain \/ CuReset \/ CuDrain2 \/ CuClose \/ CuRelease
    \/ CuCallAgain

SpecClose == InitClose /\ [][NextClose]_vars

\* the steps of a log, in order
CuSteps(log) == [i \in DOMAIN log |-> log[i][1]]

\* C19: close_uart never raises, whatever the handle does while it is
\* checked, drained or closed; close() is called only after the buffers were
\* drained and cleared; it always leaves selected_uart = None, and a second
\* call does nothing.
C19_CloseUartNeverRaises ==
    /\ ~cu.raised
    /\ cu.pc = "done" => cu.u = "none"
    /\ (\E i \in DOMAIN cu.log : cu.log[i][1] = "close") =>
           CuSteps(cu.log) = <<"check", "drain", "reset", "drain2", "close">>
    /\ cu.calls = 2 => cu.log = cu.log1

C19_Witness ==
    /\ cu.pc = "done" /\ cu.calls = 2 /\ cu.u = "none"
    /\ Len(cu.log) = 5 /\ cu.log[3][2] = "closed" /\ cu.log[5][2] = "oserror"

(***************************************************************************)
(* The backend chain of write_bytes (base.py 726-986).                     *)
(***************************************************************************)
\* the chain in the order write_bytes walks it
BackendOrder == <<"lib", "cube", "openocd", "usb">>

\* the backends write_bytes reached, tried or found unavailable
Reached(w) ==
    {b \in {"lib", "cube", "openocd", "usb"} :
        \E i \in DOMAIN w.attempted : w.attempted[i] \in {b, "missing_" \o b}}

\* C21: the backends are tried in the order library, vendor CLI, OpenOCD,
\* raw USB; a backend that fails or raises is followed by the next one, so
\* the chain ends only at the first successful write or after the last
\* backend; no backend is tried after the one that succeeded.
C21_ChainStopsAtFirstSuccess ==
    (wb.pc = "done" /\ wb.selected) =>
        /\ \E n \in 1..4 : Reached(wb) = {BackendOrder[k] : k \in 1..n}
        /\ wb.success =>
             wb.attempted[Len(wb.attempted)] = wb.by
        /\ ~wb.success => Reached(wb) = {"lib", "cube", "openocd", "usb"}

C23_FailureListsEveryBackend ==
    (wb.pc = "done" /\ wb.selected /\ ~wb.success) =>
        /\ wb.out.status = "fail" /\ wb.out.detail.kind = "backends"
        /\ wb.out.detail.attempted = wb.attempted
        /\ \A b \in Reached(wb) : wb.out.detail.lastError = b

\* C24: a backend's hold on the probe is released before the next backend
\* is tried and before write_bytes returns, whether the backend succeeded,
\* failed or raised.
C24_HoldReleasedBetweenBackends ==
    wb.pc \in {"cube", "openocd", "usb", "report", "verify", "compare", "done"} =>
        wb.held = "none"

(***************************************************************************)
(* run_test_plan (core.py 691-1143).  A step is blank (its command is      *)
(* empty after strip), "cmd" (command and expected_response), "raw" (a     *)
(* command without expected_response) or "status" (GET STATUS with a       *)
(* validation and no expected_response); wait says wait_time > 0.          *)
(***************************************************************************)
MaxSteps == 2

tpUnch == UNCHANGED <<runVars, wb, ds, sc, cu, vs, sv, gui, pg>>

\* the loop goes to the next step, or the function returns (core.py 1128-1143)
TpNext(t) ==
    IF t.i < Len(t.plan)
    THEN [t EXCEPT !.pc = "command", !.i = @ + 1]
    ELSE [t EXCEPT !.pc = "done", !.out = IF t.passed THEN "ok" ELSE "fail"]

\* an exception leaves run_test_plan
TpRaise(t) == [t EXCEPT !.pc = "done", !.out = "raise", !.failed = @ \cup {t.i}]

\* test_errors.append(...), all_tests_passed = False
TpRecordFailure(t) ==
    [t EXCEPT !.failed = @ \cup {t.i}, !.reported = @ \cup {t.i}, !.passed = FALSE]

\* core.py 699-720: the three early returns
TpStart ==
    /\ tp.pc = "start"
    /\ tp' = IF tp.u # "open" \/ ~tp.loaded \/ tp.plan = <<>>
             THEN [tp EXCEPT !.pc = "done", !.out = "not_run"]
             ELSE [tp EXCEPT !.pc = "command"]
    /\ tpUnch

\* core.py 729-919: the command of step i.  The handle can die while the
\* command is on its way.
TpCommand ==
    /\ tp.pc = "command"
    /\ LET step == tp.plan[tp.i]
           sent == [tp EXCEPT !.attempted = Append(@, tp.i)]
       IN  CASE step.kind = "blank" -> tp' = TpNext(tp)              \* 742-744
             [] step.kind = "cmd" ->
                  IF tp.u = "closed"
                  THEN tp' = TpRaise(tp)          \* 782-787: in_waiting, unguarded
                  ELSE \E ok \in BOOLEAN,
                          u1 \in (IF tp.u = "open" THEN UartStates ELSE {tp.u}) :
                         /\ ok => tp.u = "open"
                         /\ tp' = IF ok
                                  THEN [sent EXCEPT !.pc = "wait", !.u = u1]
                                  ELSE TpNext(TpRecordFailure([sent EXCEPT !.u = u1]))
             [] OTHER ->                          \* 917-919, unguarded
                  IF tp.u # "open"
                  THEN tp' = TpRaise(tp)
                  ELSE \E ok \in BOOLEAN, u1 \in UartStates :
                         tp' = IF ok
                               THEN [sent EXCEPT !.pc = "wait", !.u = u1]
                               ELSE TpRaise([sent EXCEPT !.u = u1])
    /\ tpUnch

\* core.py 921-923
TpWait ==
    /\ tp.pc = "wait"
    /\ LET step == tp.plan[tp.i]
           t == IF step.wait THEN [tp EXCEPT !.waited = @ \cup {tp.i}] ELSE tp
       IN  tp' = IF step.kind = "status"
                 THEN [t EXCEPT !.pc = "validate", !.vstep = tp.i, !.va = 0, !.queries = 0,
                                !.resends = 0, !.delays = <<>>, !.vok = FALSE]
                 ELSE TpNext(t)
    /\ tpUnch

\* core.py 946-947
MaxValidationRetries == 5
ValidationRetryDelays == <<1, 2, 3, 5, 10>>

\* core.py 968-1000: the command of the step before step i is sent
\* again when it starts with "SET SWICH" and has a non-empty expected_response
ResendsPrevious(t) ==
    /\ t.i > 1
    /\ t.plan[t.i - 1].setSwich
    /\ t.plan[t.i - 1].kind = "cmd"

\* core.py 936-1126: one pass of the loop over validation_attempt: the delay
\* and the re-send before a retry, get_status_from_uart (None on a handle
\* that is not open and on every exception) and validate_status
TpValidate ==
    /\ tp.pc = "validate"
    /\ LET retry == tp.va > 0
           resend == retry /\ ResendsPrevious(tp)
       IN  \E valid \in BOOLEAN,
              u1 \in (IF resend /\ tp.u = "open" THEN UartStates ELSE {tp.u}) :
             /\ valid => u1 = "open"
             /\ LET t1 == [tp EXCEPT
                             !.u = u1,
                             !.queries = @ + 1,
                             !.resends = IF resend THEN @ + 1 ELSE @,
                             !.delays = IF retry
                                        THEN Append(@, ValidationRetryDelays[
                                                 Min(tp.va, Len(ValidationRetryDelays))])
                                        ELSE @]
                IN  tp' = IF valid THEN TpNext([t1 EXCEPT !.vok = TRUE])
                          ELSE IF tp.va + 1 < MaxValidationRetries
                          THEN [t1 EXCEPT !.va = @ + 1]
                          ELSE TpNext(TpRecordFailure(t1))
    /\ tpUnch

\* the steps a plan file can hold: no command, a command with an expected
\* response, a command without one, GET STATUS with a validation block;
\* setSwich: the command starts with "SET SWICH"
PlanSteps ==
    {st \in [kind : {"blank", "cmd", "raw", "status"}, wait : BOOLEAN, setSwich : BOOLEAN] :
        st.setSwich => st.kind \in {"cmd", "raw"}}

InitTest ==
    /\ NoRun /\ wb = WbIdle /\ ds = DsIdle /\ sc = ScIdle /\ cu = CuIdle /\ vs = VsIdle /\ AppIdle
    /\ \E u0 \in UartStates, l \in BOOLEAN,
          p \in SeqsUpTo(PlanSteps, MaxSteps) :
         tp = [TpIdle EXCEPT !.pc = "start", !.u = u0, !.loaded = l, !.plan = p]

NextTest == TpStart \/ TpCommand \/ TpWait \/ TpValidate

SpecTest == InitTest /\ [][NextTest]_vars

\* the steps of the plan that have a command, in order
StepsWithCommand(t) ==
    LET I == {i \in DOMAIN t.plan : t.plan[i].kind # "blank"}
        RECURSIVE Up(_)
        Up(n) == IF n = 0 THEN <<>>
                 ELSE IF n \in I THEN Append(Up(n - 1), n) ELSE Up(n - 1)
    IN  Up(Len(t.plan))

PlanRan == tp.pc = "done" /\ tp.out # "not_run"

\* C25: run_test_plan attempts every step in order whatever happened in the
\* earlier steps; every failed step has an entry in the report; all_passed
\* is true iff no step failed.
C25_AllStepsAttempted ==
    PlanRan =>
        /\ tp.attempted = StepsWithCommand(tp)
        /\ tp.failed \subseteq tp.reported
        /\ tp.out = "ok" <=> tp.failed = {}

\* C26: the wait_time of a step is applied after the step whether its
\* command succeeded or failed.
C26_WaitAppliedUnconditionally ==
    (PlanRan /\ tp.out \in {"ok", "fail"}) =>
        \A k \in DOMAIN tp.attempted :
            tp.plan[tp.attempted[k]].wait => tp.attempted[k] \in tp.waited

(***************************************************************************)
(* validate_status (core.py 626-666).  status_dict and expected_values are *)
(* functions from keys to strings, strings are sequences of characters.    *)
(***************************************************************************)
\* str.strip()
Strip(str) == RStrip(LStrip(str, Whitespace), Whitespace)

ValidateStatusSkipsMissing(status_dict, expected_values, ignore_fields) ==
    LET errors ==
            {[key |-> k, expected |-> Strip(expected_values[k]),
              actual |-> Strip(status_dict[k])] :
                k \in {x \in (DOMAIN expected_values \cap DOMAIN status_dict)
                                 \ ignore_fields :
                          Strip(status_dict[x]) # Strip(expected_values[x])}}
    IN  [valid |-> errors = {}, errors |-> errors]

\* the errors list as a set of entries; actual is "missing" for a key that
\* status_dict.get does not find
ValidateStatus(status_dict, expected_values, ignore_fields) ==
    LET checked == DOMAIN expected_values \ ignore_fields
        missing == {[key |-> k, expected |-> Strip(expected_values[k]),
                     actual |-> "missing"] : k \in checked \ DOMAIN status_dict}
        differing ==
            {[key |-> k, expected |-> Strip(expected_values[k]),
              actual |-> Strip(status_dict[k])] :
                k \in {x \in checked \cap DOMAIN status_dict :
                          Strip(status_dict[x]) # Strip(expected_values[x])}}
    IN  [valid |-> missing \cup differing = {}, errors |-> missing \cup differing]

VsCall ==
    /\ vs.pc = "call"
    /\ LET r == ValidateStatus(vs.status, vs.expected, vs.ignore)
       IN  vs' = [vs EXCEPT !.pc = "done", !.valid = r.valid, !.errors = r.errors]
    /\ UNCHANGED <<runVars, wb, ds, sc, cu, tp, sv, gui, pg>>

InitValidate ==
    /\ NoRun /\ wb = WbIdle /\ ds = DsIdle /\ sc = ScIdle /\ cu = CuIdle /\ tp = TpIdle
    /\ AppIdle
    /\ LET Values == {<<>>, <<49>>, <<50>>, <<SP, 49>>, <<49, SP>>}
           Dicts == UNION {[D -> Values] : D \in SUBSET {"mode", "profile"}}
       IN  \E st \in Dicts, ex \in Dicts, ig \in SUBSET {"mode", "profile"} :
             vs = [VsIdle EXCEPT !.pc = "call", !.status = st, !.expected = ex,
                                 !.ignore = ig]

SpecValidate == InitValidate /\ [][VsCall]_vars

\* C27: validate_status returns valid iff every key of expected_values that
\* is not ignored is in the status with a value equal to the expected one
\* once both are trimmed; exactly the keys that are missing or differ have
\* an error entry, so ignored keys and keys without an expectation have none.
C27_ValidIffExpectedKeysMatch ==
    vs.pc = "done" =>
        LET bad == {k \in DOMAIN vs.expected \ vs.ignore :
                       \/ k \notin DOMAIN vs.status
                       \/ Strip(vs.status[k]) # Strip(vs.expected[k])}
        IN  /\ vs.valid <=> bad = {}
            /\ {e.key : e \in vs.errors} = bad

\* valid although the raw strings differ, with an ignored key that differs
C27_Witness ==
    /\ vs.pc = "done" /\ vs.valid
    /\ DOMAIN vs.expected = {"mode", "profile"} /\ vs.ignore = {"profile"}
    /\ DOMAIN vs.status = {"mode", "profile"}
    /\ vs.status["mode"] = <<SP, 49>> /\ vs.expected["mode"] = <<49, SP>>
    /\ vs.status["profile"] = <<50>> /\ vs.expected["profile"] = <<49>>

(***************************************************************************)
(* program_device: the order of image loading, mode switch and flash write *)
(***************************************************************************)
\* C28: when an image cannot be loaded (missing, empty or malformed file),
\* the run has done no hardware I/O yet: no UART was opened, no power or
\* mode-switch command reached the board, no flash write was started.
C28_BadImageFailsBeforeIO ==
    [][(pc = "load_fw" /\ results[Mode] # "fail" /\ results'[Mode] = "fail") =>
          (~h.everOpened /\ ~h.onWire /\ h.switched = {} /\ h.flashed = {})]_vars

C30_BoundedRecoveryNoStaleWrite ==
    /\ sc.reopens <= SafeWriteMaxRetries
    /\ sc.a <= SafeWriteMaxRetries
    /\ sc.wires <= SafeWriteMaxRetries + 1
    /\ (sc.pc = "done" /\ sc.phase = "write") => sc.out = "raise"
    /\ sc.stale = 0

(***************************************************************************)
(* Cancellation of program_device.                                         *)
(***************************************************************************)
\* C31: when stop_check_callback() already returns true, the run begins no
\* mode switch and no flash write, does not run the test plan, and does not
\* return a success.
C31_NoStepAfterStop ==
    [][stopReq =>
         /\ ~(pc = "loop_head" /\ pc' = "ms_send")
         /\ ~(pc = "pre_write" /\ pc' = "write_call")
         /\ ~(pc = "test" /\ h'.testState \in {"passed", "failed", "raised"})
         /\ ~(ret # "success" /\ ret' = "success")]_vars

\* C32: when program_device has returned, on every path, selected_uart is
\* None; every return taken inside the try block has gone through the finally
\* block first, so the close_uart call follows the final power-off attempt.
C32_UartClosedOnReturn ==
    /\ Exited => uart = "none"
    /\ (Exited /\ ret \notin {"no_devices", "raised"}) => h.finallyRan
    /\ pc = "close" => h.finallyRan

\* a successful run whose finally block sent the power-off and then closed
C32_Witness ==
    Exited /\ ret = "success" /\ h.everOpened /\ h.openAtExit /\ h.offFinal = 1

\* C33: the validation of a GET STATUS step queries the status at most five
\* times, with increasing delays, and stops at the first valid answer; before
\* every retry, and never before the first attempt, the command of the
\* preceding step is sent again iff it starts with "SET SWICH"; the step is
\* failed only after all five attempts failed.
C33_RetriesResendModeSetting ==
    tp.vstep # 0 =>
        LET prevSets == tp.vstep > 1 /\ tp.plan[tp.vstep - 1].setSwich
            retries == IF tp.queries = 0 THEN 0 ELSE tp.queries - 1
        IN  /\ tp.queries <= MaxValidationRetries
            /\ \A k \in 1..(Len(tp.delays) - 1) : tp.delays[k] < tp.delays[k + 1]
            /\ Len(tp.delays) = retries
            /\ tp.resends = IF prevSets THEN retries ELSE 0
            /\ tp.vok => tp.vstep \notin tp.failed
            /\ tp.vstep \in tp.failed => (tp.queries = MaxValidationRetries /\ ~tp.vok)

(***************************************************************************)
(* Termination.  program_device and run_test_plan are sequential code      *)
(* whose blocking calls return (serial timeout of 3 s set at core.py 53-61,*)
(* read loops bounded by wall-clock time at base.py 1577 and core.py 562), *)
(* so the step the code is at is eventually taken; the caller's stop flag  *)
(* and the state of the port are under no such obligation.                 *)
(***************************************************************************)
RunStep ==
    \/ Start \/ Select \/ OpenUart \/ PowerOn \/ LoopHead
    \/ MsSend \/ MsAlt \/ MsConfirm \/ Stabilize \/ Reenum
    \/ LoadFw \/ PreWrite \/ WriteBytesOfRun \/ WriteReturn
    \/ PcycleOff \/ PcycleOn \/ LvWait \/ LvReconnect
    \/ Summary \/ Test \/ Finally \/ Close

\* runs over a given port with no image or the LV image, and test plans:
\* every retry loop of the code is inside the processing of one image (the
\* LV image adds the reconnect loop) or of one test step
InitLive == (Init /\ portGiven /\ cfg \in {<<>>, <<"LV">>}) \/ InitTest

NextLive == Next \/ NextTest

SpecLive == InitLive /\ [][NextLive]_vars /\ WF_vars(RunStep) /\ WF_vars(NextTest)

\* C34: every program_device run and every run_test_plan call ends, whatever
\* the board and the probe answer: each retry loop is bounded.
C34_RunTerminates ==
    <>((pc # "off" => pc = "done") /\ (tp.pc # "idle" => tp.pc = "done"))

\* a run that ended after the re-enumeration loop used up its attempts
C34_Witness ==
    /\ pc = "done" /\ ret = "mode_failed"
    /\ h.msFailed = {"LV"} /\ h.switched = {"LV"} /\ nDev = 0 /\ tp.pc = "idle"

\* C35: the run goes on from a flashed and power-cycled LV image to the next
\* image only through the probe re-discovery loop, which makes at most
\* ReconnectRetries attempts; that loop ends the run only on a stop request
\* or an exception, never because the probe could not be re-selected.
C35_ReconnectAfterLv ==
    [][/\ (/\ modeIdx \in DOMAIN cfg /\ Mode = "LV" /\ modeIdx' = modeIdx + 1
           /\ results'["LV"] = "ok") => pc = "lv_reconnect"
       /\ (pc = "lv_reconnect" /\ pc' = "finally") => ret' \in {"stopped", "exception"}
       /\ pc' = "lv_reconnect" => attempt' < ReconnectRetries]_vars

\* the HV image is about to be processed although no probe was found in any
\* of the reconnect attempts after the LV image
C35_Witness ==
    /\ cfg = <<"LV", "HV">> /\ pc = "loop_head" /\ modeIdx = 2
    /\ results["LV"] = "ok" /\ nDev = 0

(***************************************************************************)
(* The HTTP server (server/app.py): start and reset requests are handled   *)
(* concurrently with each other and with the worker threads; state_lock is *)
(* held only inside the "with state_lock:" blocks.                         *)
(***************************************************************************)
\* core.py 1146-1155: the parameters of program_device
CoreParams ==
    {"lv_firmware_path", "hv_firmware_path", "progress_callback", "status_callback",
     "progress_percent_callback", "stop_check_callback", "uart_port", "device_index"}

\* server/app.py 143-154 and gui/main_window.py 62-73: the keyword arguments
\* the worker threads pass to program_device
WorkerKeywords ==
    {"lv_firmware_path", "hv_firmware_path", "progress_callback", "status_callback",
     "progress_percent_callback", "programming_progress_callback",
     "testing_progress_callback", "stop_check_callback", "uart_port", "device_index"}

\* a call with a keyword the function does not declare raises TypeError
\* before the body runs
CallAccepted(keywords) == keywords \subseteq CoreParams

svUnch == UNCHANGED <<runVars, wb, ds, sc, cu, tp, vs, gui, pg>>

\* server/app.py 334-342: the check of is_programming, under the lock
SvStartCheck ==
    /\ \E r \in Requests :
         /\ sv.req[r] = "new"
         /\ sv' = [sv EXCEPT !.req[r] = IF sv.isProgramming THEN "rejected" ELSE "checked"]
    /\ svUnch

\* server/app.py 344-392: the request body is validated, the worker thread is
\* started, current_task_id is set
SvStartSpawn ==
    /\ \E r \in Requests, valid \in BOOLEAN :
         /\ sv.req[r] = "checked"
         /\ sv' = IF valid
                  THEN [sv EXCEPT !.req[r] = "accepted", !.worker[r] = "spawned"]
                  ELSE [sv EXCEPT !.req[r] = "invalid"]
    /\ svUnch

\* server/app.py 117-122: the worker marks the run, under the lock
SvWorkerBegin ==
    /\ \E r \in Requests :
         /\ sv.worker[r] = "spawned"
         /\ sv' = [sv EXCEPT !.worker[r] = "running", !.isProgramming = TRUE,
                             !.stopRequested = FALSE]
    /\ svUnch

\* server/app.py 143-159: the call of program_device and
\* set_programming_result (84-97) after its return or its exception
SvWorkerCall ==
    /\ \E r \in Requests :
         \/ /\ sv.worker[r] = "running" /\ CallAccepted(WorkerKeywords)
            /\ sv' = [sv EXCEPT !.worker[r] = "in_run"]
         \/ /\ \/ sv.worker[r] = "running" /\ ~CallAccepted(WorkerKeywords)
               \/ sv.worker[r] = "in_run"
            /\ sv' = [sv EXCEPT !.worker[r] = "finished", !.isProgramming = FALSE]
    /\ svUnch

\* server/app.py 396-407: POST /api/program/stop
SvStop ==
    /\ \E r \in Requests : sv.req[r] # "absent"
    /\ sv.isProgramming /\ ~sv.stopRequested
    /\ sv' = [sv EXCEPT !.stopRequested = TRUE]
    /\ svUnch

\* server/app.py 100-113 and 420-423: POST /api/program/reset
SvReset ==
    /\ \E r \in Requests : sv.req[r] # "absent"
    /\ sv.isProgramming \/ sv.stopRequested
    /\ sv' = [sv EXCEPT !.isProgramming = FALSE, !.stopRequested = FALSE]
    /\ svUnch

InitServer ==
    /\ NoRun /\ wb = WbIdle /\ ds = DsIdle /\ sc = ScIdle /\ cu = CuIdle /\ tp = TpIdle
    /\ vs = VsIdle /\ gui = GuiIdle /\ pg = PgIdle
    /\ sv = [SvIdle EXCEPT !.req = [r \in Requests |-> "new"]]

NextServer ==
    \/ SvStartCheck \/ SvStartSpawn \/ SvWorkerBegin \/ SvWorkerCall \/ SvStop \/ SvReset

SpecServer == InitServer /\ [][NextServer]_vars

\* the worker threads that are inside program_device_thread
RunningWorkers == {r \in Requests : sv.worker[r] \in {"running", "in_run"}}

\* C36: at most one worker thread of the HTTP server is running at any time,
\* whatever the interleaving of the start and reset requests.
C36_AtMostOneWorker == Cardinality(RunningWorkers) <= 1

(***************************************************************************)
(* The GUI: the main window (gui/main_window.py), its ProgrammingThread    *)
(* and the serial monitor (gui/serial_monitor.py).                         *)
(***************************************************************************)
guiUnch == UNCHANGED <<runVars, wb, ds, sc, cu, tp, vs, sv, pg>>

\* main_window.py 544-548: the user picks a port for programming (the
\* combobox is disabled during a run, 1219-1221); the monitor's combobox follows
GuiSelectPort ==
    /\ gui.on /\ ~gui.isProgramming
    /\ \E p \in GuiPorts \ {gui.runPort} :
         gui' = [gui EXCEPT !.runPort = p, !.monitorSel = p]
    /\ guiUnch

\* serial_monitor.py 328-331: the user picks a port in the monitor
MonSelectPort ==
    /\ gui.on
    /\ \E p \in GuiPorts \ {gui.monitorSel} : gui' = [gui EXCEPT !.monitorSel = p]
    /\ guiUnch

\* serial_monitor.py 361-405: serial.Serial(port) succeeds (a failed open
\* changes nothing); port_changed moves the main window's combobox
\* (main_window.py 550-556)
MonConnect ==
    /\ gui.on /\ gui.monitorOpen = "none"
    /\ gui' = [gui EXCEPT !.monitorOpen = gui.monitorSel, !.runPort = gui.monitorSel]
    /\ guiUnch

\* serial_monitor.py 407-423
MonDisconnect ==
    /\ gui.on /\ gui.monitorOpen # "none"
    /\ gui' = [gui EXCEPT !.monitorOpen = "none"]
    /\ guiUnch

\* main_window.py 1288-1396: the checks, is_programming = True, the thread is
\* created with the selected port and started
GuiStart ==
    /\ gui.on /\ ~gui.isProgramming
    /\ gui' = [gui EXCEPT !.isProgramming = TRUE, !.isStopping = FALSE,
                          !.thread = "started", !.threadPort = gui.runPort,
                          !.stopRequested = FALSE, !.finishedQueued = FALSE,
                          !.finallyRan = FALSE]
    /\ guiUnch

\* what ProgrammingThread.run does from the state the thread is in
\* (main_window.py 55-82): the early return on a stop, the call of
\* program_device, the finished signal
ThreadRuns(g) ==
    CASE g.thread = "started" /\ g.stopRequested ->
           [g EXCEPT !.thread = "ended", !.finishedQueued = TRUE]
      [] g.thread = "started" /\ ~g.stopRequested ->
           IF CallAccepted(WorkerKeywords)
           THEN [g EXCEPT !.thread = "in_run"]
           ELSE [g EXCEPT !.thread = "ended", !.finishedQueued = TRUE]
      [] g.thread = "in_run" ->
           [g EXCEPT !.thread = "ended", !.finishedQueued = TRUE, !.finallyRan = TRUE]

GuiThreadRun ==
    /\ gui.thread \in {"started", "in_run"}
    /\ gui' = ThreadRuns(gui)
    /\ guiUnch

\* main_window.py 1485-1490: the finished signal is delivered
GuiOnFinished ==
    /\ gui.finishedQueued
    /\ gui' = [gui EXCEPT !.isProgramming = FALSE, !.isStopping = FALSE,
                          !.finishedQueued = FALSE]
    /\ guiUnch

\* main_window.py 1260-1286: request_stop(), wait(1000); a thread that has not
\* ended by then is ended with terminate() and on_programming_finished is
\* called directly
GuiStop ==
    /\ gui.on /\ gui.isProgramming /\ gui.thread # "none" /\ ~gui.isStopping
    /\ IF gui.thread \in {"started", "in_run"}
       THEN LET g == [gui EXCEPT !.isStopping = TRUE, !.stopRequested = TRUE]
            IN  \/ gui' = ThreadRuns(g)                       \* ended within the wait
                \/ gui' = [g EXCEPT !.thread = "terminated",   \* the wait timed out
                                    !.isProgramming = FALSE, !.isStopping = FALSE]
       ELSE gui' = [gui EXCEPT !.isStopping = TRUE]
    /\ guiUnch

InitGui ==
    /\ NoRun /\ wb = WbIdle /\ ds = DsIdle /\ sc = ScIdle /\ cu = CuIdle /\ tp = TpIdle
    /\ vs = VsIdle /\ sv = SvIdle /\ pg = PgIdle
    /\ \E p \in GuiPorts : gui = [GuiIdle EXCEPT !.on = TRUE, !.runPort = p, !.monitorSel = p]

NextGui ==
    \/ GuiSelectPort \/ MonSelectPort \/ MonConnect \/ MonDisconnect
    \/ GuiStart \/ GuiThreadRun \/ GuiOnFinished \/ GuiStop

SpecGui == InitGui /\ [][NextGui]_vars

\* C37: while a programming run is in progress for a port, the serial
\* monitor is not connected to that port.
C37_MonitorAndRunExclusive ==
    ~(/\ gui.isProgramming /\ gui.thread \in {"started", "in_run"}
      /\ gui.monitorOpen = gui.threadPort)

\* C38: a worker that was asked to stop ends by itself; it is never ended
\* from outside.
C38_StoppedWorkerEndsByItself == gui.stopRequested => gui.thread # "terminated"

\* the flash holds exactly the image followed only by erased bytes
ImageThenErased(image, read_data) ==
    /\ Len(read_data) >= Len(image)
    /\ Take(read_data, Len(image)) = image
    /\ \A i \in (Len(image) + 1)..Len(read_data) : read_data[i] = ErasedByte

\* C39: when the read-back is the written image followed only by 0xFF bytes,
\* _verify_write reports success, also for an image that ends with 0xFF.
C39_ErasedTailIsNotMismatch ==
    (wb.pc = "done" /\ wb.gotRead /\ ImageThenErased(wb.data, wb.read)) =>
        wb.out.status = "ok"

(***************************************************************************)
(* The values passed to progress_percent_callback by program_device and by *)
(* run_test_plan, in the order of the calls of one run.                    *)
(***************************************************************************)
\* steps of the test plan of a run
MaxPlanSteps == 3

\* core.py 1274
ModeProgressRange(num_modes) == IF num_modes = 1 THEN 80 ELSE 40

\* core.py 1286, 1763, 1808, 1819, 1873, 1896, 1915, 1936, 1960: the offsets
\* added to base_progress while one image is processed, in call order
ImageOffsets == <<2, 5, 8, 10, 15, 20, 60, 65, 70>>

\* core.py 1982: the offset of the reconnect step after the LV image
ReconnectOffset == 75

\* the call of progress_percent_callback at point k of the image at index
\* pg.idx (0-based, as mode_idx): points 1..9 are base_progress plus an
\* offset, point 10 is the value after the image is recorded (core.py
\* 1968-1974), points 11 and 12 are the reconnect step of the LV image
\* (core.py 1982 and 2038-2039)
PercentAt(modes, idx, k) ==
    LET num_modes == Len(modes)
        target_mode == modes[idx + 1]
        base_progress == idx * ModeProgressRange(num_modes)
    IN  IF k <= Len(ImageOffsets) THEN base_progress + ImageOffsets[k]
        ELSE IF k = 10 THEN (IF target_mode = "LV" /\ num_modes = 2 THEN 40 ELSE 80)
        ELSE IF k = 11 THEN base_progress + ReconnectOffset
        ELSE 40

\* the last point of an image: 10 for HV, 11 for a lone LV, 12 for LV of two
LastPoint(modes, idx) ==
    IF modes[idx + 1] # "LV" THEN 10 ELSE IF Len(modes) = 2 THEN 12 ELSE 11

\* core.py 731: 80 + int((step_idx / total_steps) * 20); the float product
\* is at most 20 and its integer part is the floor
TestPercent(step_idx, total_steps) == 80 + ((step_idx * 20) \div total_steps)

pgUnch == UNCHANGED <<runVars, wb, ds, sc, cu, tp, vs, sv, gui>>

PgCall(g, v) == [g EXCEPT !.value = v, !.calls = @ + 1]

\* core.py 1210 and 1253: the calls before the image loop
PgBefore ==
    /\ pg.pc \in {"init", "power_on"}
    /\ \/ /\ pg.pc = "init"
          /\ pg' = [PgCall(pg, 0) EXCEPT !.pc = "power_on"]
       \/ /\ pg.pc = "power_on"
          /\ pg' = [PgCall(pg, 2) EXCEPT !.pc = "image", !.idx = 0, !.step = 1]
       \/ pg' = [pg EXCEPT !.pc = "end"]          \* the run returns or raises here
    /\ pgUnch

\* core.py 1276-2039: the call at point pg.step of the image at pg.idx, then
\* the next point, the next image (after the last point, or a failed
\* sub-step before the write), the test plan, or the end of the run; without
\* a UART handle the points 2..4 are skipped
PgImage ==
    /\ pg.pc = "image"
    /\ LET g == PgCall(pg, PercentAt(pg.modes, pg.idx, pg.step))
           last == pg.step = LastPoint(pg.modes, pg.idx)
           lastImage == pg.idx + 1 = Len(pg.modes)
       IN  \/ /\ ~last
              /\ pg' = [g EXCEPT !.step = @ + 1]
           \/ /\ pg.step = 1
              /\ pg' = [g EXCEPT !.step = 5]
           \/ /\ last \/ pg.step <= 5
              /\ ~lastImage
              /\ pg' = [g EXCEPT !.idx = @ + 1, !.step = 1]
           \/ /\ last /\ lastImage
              /\ pg' = [g EXCEPT !.pc = "test", !.step = 1]
           \/ pg' = [g EXCEPT !.pc = "end"]
    /\ pgUnch

\* core.py 729-732 and 1128-1143: one call per step of the plan, then 100
PgTest ==
    /\ pg.pc = "test"
    /\ IF pg.step <= pg.totalSteps
       THEN \/ pg' = [PgCall(pg, TestPercent(pg.step, pg.totalSteps)) EXCEPT !.step = @ + 1]
            \/ pg' = [PgCall(pg, TestPercent(pg.step, pg.totalSteps)) EXCEPT !.pc = "end"]
       ELSE pg' = [PgCall(pg, 100) EXCEPT !.pc = "end"]
    /\ pgUnch

InitProgress ==
    /\ NoRun /\ wb = WbIdle /\ ds = DsIdle /\ sc = ScIdle /\ cu = CuIdle /\ tp = TpIdle
    /\ vs = VsIdle /\ sv = SvIdle /\ gui = GuiIdle
    /\ \E m \in {<<"LV">>, <<"HV">>, <<"LV", "HV">>}, n \in 1..MaxPlanSteps :
         pg = [PgIdle EXCEPT !.pc = "init", !.modes = m, !.totalSteps = n]

NextProgress == PgBefore \/ PgImage \/ PgTest

SpecProgress == InitProgress /\ [][NextProgress]_vars

\* C40: every value passed to progress_percent_callback lies in 0..100, in a
\* run with one image and in a run with two images.
C40_ProgressWithinRange == pg.calls > 0 => pg.value \in 0..100

====
